---- MODULE Spec2Model ----
(***************************************************************************)
(* Model of the qphysics staged simulation pipeline of qeditor             *)
(* (src/src/qphysics): force application, velocity integration, broad      *)
(* phase, narrow phase with enter/stay/exit events, collision resolution   *)
(* and position integration, over fixed-point bodies.                      *)
(*                                                                         *)
(* Q64 (crate qmath) is a signed fixed-point scalar with saturating        *)
(* arithmetic.  It is modelled as an integer count of 1/ONE units that     *)
(* saturates at QMIN/QMAX; the width is scaled down (8 fractional bits, 16 *)
(* bits in all) so that every product stays inside TLC's integers.         *)
(* Shapes (crate qgeometry) are carried by their defining points; the      *)
(* exact collision test is the separating-axis test on convex polygons,    *)
(* and the separation vector is modelled for axis-aligned rectangles.      *)
(***************************************************************************)
EXTENDS Integers, Sequences, FiniteSets, TLC

\* ------------------------------------------------------------------ bounds
\* Number of ticks a behaviour runs before the scheduler is stopped.
MaxTicks == 3

\* Width of the collision layer / mask words of the model (u32 in the code).
FlagBits == 2

\* Editor shapes spawned in a run, and vertices of a polygon.
MaxShapes == 2

MaxPoints == 3

\* ------------------------------------------------------- Q64 fixed point
\* Q64::ONE, in raw units.
ONE == 256

QMAX == ONE * 128 - 1
QMIN == -(ONE * 128)

Q(n) == n * ONE

Abs(x) == IF x < 0 THEN -x ELSE x

Sgn(x) == IF x < 0 THEN -1 ELSE IF x > 0 THEN 1 ELSE 0

\* Clamp to the representable range: the result of every saturating_* op.
Sat(x) == IF x > QMAX THEN QMAX ELSE IF x < QMIN THEN QMIN ELSE x

SatAdd(a, b) == Sat(a + b)

SatSub(a, b) == Sat(a - b)

\* Unary minus.
Neg(a) == Sat(-a)

\* Fixed-point product: the exact product rescaled, rounded down.
SatMul(a, b) == Sat((a * b) \div ONE)

\* Integer quotient rounded towards zero.
TruncDiv(a, b) == Sgn(a) * Sgn(b) * (Abs(a) \div Abs(b))

\* Fixed-point quotient (b # 0 at every call site).
SatDiv(a, b) == Sat(TruncDiv(a * ONE, b))

\* saturating_recip: 1 / a.
SatRecip(a) == SatDiv(ONE, a)

\* The averaged restitution with the halving left out.
HalfMissing(a) == a

\* half(): a / 2.
Half(a) == a \div 2

\* The `+` operator of Q64 (not the saturating one): two's complement sum.
PlainAdd(a, b) == ((a + b - QMIN) % (2 * (QMAX + 1))) + QMIN

\* ------------------------------------------------------------- QVec2
VSatAdd(u, v) == <<SatAdd(u[1], v[1]), SatAdd(u[2], v[2])>>

VSatSub(u, v) == <<SatSub(u[1], v[1]), SatSub(u[2], v[2])>>

VSatMulNum(v, k) == <<SatMul(v[1], k), SatMul(v[2], k)>>

\* Component-wise product (QVec2::saturating_mul).
VSatMul(u, v) == <<SatMul(u[1], v[1]), SatMul(u[2], v[2])>>

VNeg(v) == <<Neg(v[1]), Neg(v[2])>>

RECURSIVE ISqrt(_, _, _)
\* Largest r in lo..hi with r * r <= n.
ISqrt(n, lo, hi) ==
    IF lo >= hi THEN lo
    ELSE LET mid == (lo + hi + 1) \div 2
         IN  IF mid * mid <= n THEN ISqrt(n, mid, hi) ELSE ISqrt(n, lo, mid - 1)

\* QVec2::length: exact for axis-aligned vectors, rounded down otherwise.
VLength(v) ==
    IF v[1] = 0 THEN Abs(v[2])
    ELSE IF v[2] = 0 THEN Abs(v[1])
    ELSE Sat(ISqrt(v[1] * v[1] + v[2] * v[2], 0, ONE * 128))

\* QDir::new_from_vec: the unit direction of a vector.
DirFromVec(v) ==
    IF v[2] = 0 /\ v[1] # 0 THEN <<Sgn(v[1]) * ONE, 0>>
    ELSE IF v[1] = 0 THEN <<0, Sgn(v[2]) * ONE>>
    ELSE <<SatDiv(v[1], VLength(v)), SatDiv(v[2], VLength(v))>>

\* QDir::projection_of: the component of v along the direction d.
ProjectionOf(d, v) == SatAdd(SatMul(d[1], v[1]), SatMul(d[2], v[2]))

\* QDir::rotate_vec.
RotateVec(d, v) ==
    <<SatSub(SatMul(d[1], v[1]), SatMul(d[2], v[2])),
      SatAdd(SatMul(d[2], v[1]), SatMul(d[1], v[2]))>>

\* The identity rotation, QDir::default().
DirDefault == <<ONE, 0>>

\* ------------------------------------------------------ QCollisionFlag
RECURSIVE BitAnd(_, _)
\* Bitwise AND of two naturals.
BitAnd(a, b) ==
    IF a = 0 \/ b = 0 THEN 0
    ELSE (a % 2) * (b % 2) + 2 * BitAnd(a \div 2, b \div 2)

\* The gate with only this object's mask consulted.
CanCollideWithOneSided(self, other) ==
    BitAnd(self.collision_mask, other.collision_layer) # 0

CanCollideWith(self, other) ==
    /\ BitAnd(self.collision_mask, other.collision_layer) # 0
    /\ BitAnd(other.collision_mask, self.collision_layer) # 0

\* --------------------------------------------------------- QPhysicsBody
\* The static test with only a mass of exactly zero counted.
IsStaticZeroOnly(body) == body.mass = 0

IsStatic(body) == body.mass <= 0

\* The inverse mass with a static body counted as a unit mass.
InverseMassStaticUnit(body) == IF IsStatic(body) THEN ONE ELSE SatRecip(body.mass)

\* The inverse mass taken as one for every dynamic body.
InverseMassOfUnit(body) == IF IsStatic(body) THEN 0 ELSE ONE

InverseMass(body) == IF IsStatic(body) THEN 0 ELSE SatRecip(body.mass)

\* ------------------------------------------------- shapes and transform
\* The variants of QCollisionShape, by their defining points (and radius).
Point(p) == [kind |-> "Point", pts |-> <<p>>, radius |-> 0]

Line(s, e) == [kind |-> "Line", pts |-> <<s, e>>, radius |-> 0]

Circle(c, r) == [kind |-> "Circle", pts |-> <<c>>, radius |-> r]

Rectangle(lb, rt) == [kind |-> "Rectangle", pts |-> <<lb, rt>>, radius |-> 0]

Polygon(pts) == [kind |-> "Polygon", pts |-> pts, radius |-> 0]

\* Q64::EPS: the smallest positive value.
EPS == 1

\* saturating_sqrt, rounded down.
SatSqrt(a) == IF a <= 0 THEN 0 ELSE Sat(ISqrt(a * ONE, 0, ONE * 16))

\* A defining point mapped with the rotation taken before the scale.
TransformPointRotateFirst(t, p) ==
    VSatAdd(VSatMul(RotateVec(t.rotation, p), t.scale), t.position)

\* The map apply_to sends every defining point through:
\* rotation.rotate_vec(p.saturating_mul(scale)).saturating_add(position).
TransformPoint(t, p) ==
    VSatAdd(RotateVec(t.rotation, VSatMul(p, t.scale)), t.position)

\* The scaled radius without the lower limit.
ScaledRadiusUnclamped(t, radius) ==
    SatMul(radius, SatSqrt(SatMul(Sat(Abs(t.scale[1])), Sat(Abs(t.scale[2])))))

\* The radius apply_to gives a circle: scaled by the geometric mean of the
\* absolute scales, and at least EPS.
ScaledRadius(t, radius) ==
    LET scale_mag == SatSqrt(SatMul(Sat(Abs(t.scale[1])), Sat(Abs(t.scale[2]))))
        r == SatMul(radius, scale_mag)
    IN  IF r <= EPS THEN EPS ELSE r

\* QTransform::apply_to
ApplyTo(t, shape) ==
    [kind   |-> shape.kind,
     pts    |-> [i \in DOMAIN shape.pts |-> TransformPoint(t, shape.pts[i])],
     radius |-> IF shape.kind = "Circle" THEN ScaledRadius(t, shape.radius) ELSE 0]

Min(S) == CHOOSE x \in S : \A y \in S : x <= y

Max(S) == CHOOSE x \in S : \A y \in S : x >= y

\* QCollisionShape::get_bbox: a rectangle is its own box, a circle's box is
\* centre -+ radius, the others' the extent of their points.
GetBbox(shape) ==
    CASE shape.kind = "Rectangle" -> [lb |-> shape.pts[1], rt |-> shape.pts[2]]
      [] shape.kind = "Circle" ->
            [lb |-> <<SatSub(shape.pts[1][1], shape.radius),
                      SatSub(shape.pts[1][2], shape.radius)>>,
             rt |-> <<SatAdd(shape.pts[1][1], shape.radius),
                      SatAdd(shape.pts[1][2], shape.radius)>>]
      [] OTHER ->
            [lb |-> <<Min({shape.pts[i][1] : i \in DOMAIN shape.pts}),
                      Min({shape.pts[i][2] : i \in DOMAIN shape.pts})>>,
             rt |-> <<Max({shape.pts[i][1] : i \in DOMAIN shape.pts}),
                      Max({shape.pts[i][2] : i \in DOMAIN shape.pts})>>]

\* QBbox::is_collide: two axis-aligned boxes overlap (touching counts).
BboxIsCollide(a, b) ==
    /\ a.lb[1] <= b.rt[1] /\ b.lb[1] <= a.rt[1]
    /\ a.lb[2] <= b.rt[2] /\ b.lb[2] <= a.rt[2]

\* QCollisionShape::to_polygon: the vertex list.  A rectangle gives its four
\* corners; a circle gives the polygon of its four points on the axes (the
\* number of vertices of QCircle::get_polygon is not fixed by the pipeline).
ToPolygon(shape) ==
    CASE shape.kind = "Rectangle" ->
            LET lb == shape.pts[1]
                rt == shape.pts[2]
            IN  <<lb, <<rt[1], lb[2]>>, rt, <<lb[1], rt[2]>>>>
      [] shape.kind = "Circle" ->
            LET c == shape.pts[1]
                r == shape.radius
            IN  <<(<<c[1] + r, c[2]>>), (<<c[1], c[2] + r>>),
                  (<<c[1] - r, c[2]>>), (<<c[1], c[2] - r>>)>>
      [] shape.kind \in {"Point", "Line", "Polygon"} -> shape.pts

\* Exact (unscaled) dot product, used only to compare projections.
Dot(n, v) == n[1] * v[1] + n[2] * v[2]

\* The candidate separating axes of a polygon: the normal of every edge,
\* and the two coordinate axes.
Axes(P) ==
    {<<-(P[(i % Len(P)) + 1][2] - P[i][2]), P[(i % Len(P)) + 1][1] - P[i][1]>> :
        i \in DOMAIN P}
    \cup {<<1, 0>>, <<0, 1>>}

\* The projections of P and of R on the axis n are disjoint.
Separates(n, P, R) ==
    LET pp == {Dot(n, P[i]) : i \in DOMAIN P}
        pr == {Dot(n, R[i]) : i \in DOMAIN R}
    IN  Max(pp) < Min(pr) \/ Max(pr) < Min(pp)

\* QPolygon::is_collide: no axis separates the two convex polygons
\* (touching counts).
PolygonIsCollide(P, R) == \A n \in Axes(P) \cup Axes(R) : ~Separates(n, P, R)

\* The bounding box of a shape as a rectangle shape.
BoxShape(shape) == Rectangle(GetBbox(shape).lb, GetBbox(shape).rt)

\* The test with the second operand taken by its bounding box.
IsCollideWithBoxOf(a, b) == PolygonIsCollide(ToPolygon(a), ToPolygon(BoxShape(b)))

\* QCollisionShape::is_collide: polygon test of the two shapes.
IsCollide(a, b) == PolygonIsCollide(ToPolygon(a), ToPolygon(b))

\* Option<QVec2>
None == [some |-> FALSE, v |-> <<0, 0>>]

Some(v) == [some |-> TRUE, v |-> v]

\* The minimum translation of box b that removes its overlap with box a.
\* Ties keep the first of +x, -x, +y, -y.
BoxSeparation(a, b) ==
    LET px == a.rt[1] - b.lb[1]
        nx == b.rt[1] - a.lb[1]
        py == a.rt[2] - b.lb[2]
        ny == b.rt[2] - a.lb[2]
        m  == IF px <= nx /\ px <= py /\ px <= ny THEN 1
              ELSE IF nx <= py /\ nx <= ny THEN 2
              ELSE IF py <= ny THEN 3 ELSE 4
    IN  CASE m = 1 -> Some(<<Sat(px), 0>>)
          [] m = 2 -> Some(<<Sat(-nx), 0>>)
          [] m = 3 -> Some(<<0, Sat(py)>>)
          [] m = 4 -> Some(<<0, Sat(-ny)>>)

RECURSIVE Gcd(_, _)
Gcd(a, b) == IF b = 0 THEN a ELSE Gcd(b, a % b)

\* An axis in lowest terms (the direction is what matters).
Reduced(n) ==
    LET g == Gcd(Abs(n[1]), Abs(n[2]))
    IN  <<Sgn(n[1]) * (Abs(n[1]) \div g), Sgn(n[2]) * (Abs(n[2]) \div g)>>

\* The ways to push R off P: along +n or -n for every axis n, by the depth
\* o of the overlap of the projections (in units of the length of n).
Pushes(P, R) ==
    LET axes == {Reduced(n) : n \in (Axes(P) \cup Axes(R)) \ {<<0, 0>>}}
        pp(n) == {Dot(n, P[i]) : i \in DOMAIN P}
        pr(n) == {Dot(n, R[i]) : i \in DOMAIN R}
    IN  {[n |-> n, sign |-> 1, o |-> Max(pp(n)) - Min(pr(n))] : n \in axes}
        \cup {[n |-> n, sign |-> -1, o |-> Max(pr(n)) - Min(pp(n))] : n \in axes}

\* Push c is at most as long as push d: o_c / |n_c| <= o_d / |n_d|.
NoLonger(c, d) == c.o * c.o * Dot(d.n, d.n) <= d.o * d.o * Dot(c.n, c.n)

\* QPolygon::try_get_seperation_vector: the shortest translation of R that
\* removes its overlap with P, or None when an axis separates them already.
PolygonSeparation(P, R) ==
    IF \E c \in Pushes(P, R) : c.o < 0 THEN None
    ELSE LET c == CHOOSE x \in Pushes(P, R) : \A d \in Pushes(P, R) : NoLonger(x, d)
         IN  Some(<<Sat(TruncDiv(c.sign * c.n[1] * c.o, Dot(c.n, c.n))),
                    Sat(TruncDiv(c.sign * c.n[2] * c.o, Dot(c.n, c.n)))>>)

\* The separation of two shapes through their polygons.
ShapeSeparation(sa, sb) ==
    IF sa.kind = "Rectangle" /\ sb.kind = "Rectangle"
    THEN IF ~IsCollide(sa, sb) THEN None ELSE BoxSeparation(GetBbox(sa), GetBbox(sb))
    ELSE PolygonSeparation(ToPolygon(sa), ToPolygon(sb))

\* The separation asked of the second shape for the first.
TryGetSeparationVectorReversed(sa, sb) == ShapeSeparation(sb, sa)

\* The separation of the two bounding boxes.
TryGetSeparationVectorOfBoxes(sa, sb) == ShapeSeparation(BoxShape(sa), BoxShape(sb))

\* QCollisionShape::try_get_separation_vector: both shapes to polygons,
\* then the polygons' separation vector for the second one.
TryGetSeparationVector(sa, sb) == ShapeSeparation(sa, sb)

\* ---------------------------------------------------------------- state
VARIABLES
    pc,                 \* the system set the scheduler runs next
    tick,               \* number of completed ticks
    gravity,            \* QPhysicsConfig.gravity
    time_step,          \* QPhysicsConfig.time_step
    components,         \* entity -> the components it carries ({} once despawned)
    body,               \* entity -> QPhysicsBody
    motion,             \* entity -> QMotion
    transform,          \* entity -> QTransform
    shape,              \* entity -> QCollisionShape (local)
    flag,               \* entity -> QCollisionFlag
    collision_pairs,    \* QCollisionPairs: Vec<(QObject, QObject)>
    last_frame,         \* QCollisionPairsSetLastFrame: HashSet<(QObject, QObject)>
    events,             \* messages written by the latest narrow phase, in order
    candidates,         \* history: the pairs as the latest broad phase left them
    pre,                \* history: motion and transform as the latest collision
                        \* resolution found them
    start,              \* history: motion and transform as the tick began
    query_order,        \* the live entities in the order a query yields them
    qobject,            \* entity -> QObject (uuid, entity)
    pair_entity,        \* the entity fields of the QObject copies held in
                        \* collision_pairs, position by position
    last_entity,        \* the entity fields of the QObject copies held in
                        \* last_frame, pair by pair
    ui_state,           \* UiState: selected_shape, enable_snap
    shape_drawing_state,\* ShapeDrawingState
    mouse_over_ui,      \* egui wanted the pointer in the latest frame
    editor_shapes,      \* entity -> the shape data of an editor shape
    spawned,            \* number of editor shapes spawned so far
    draw_pc             \* "Running", or "Panicked" once the assertion failed

vars == <<pc, tick, gravity, time_step, components, body, motion, transform, shape,
          flag, collision_pairs, last_frame, events, candidates, pre, start,
          query_order, qobject, pair_entity, last_entity, ui_state,
          shape_drawing_state, mouse_over_ui, editor_shapes, spawned, draw_pc>>

\* The state of the shape editor.
drawing == <<ui_state, shape_drawing_state, mouse_over_ui, editor_shapes, spawned,
             draw_pc>>

\* The state of the physics pipeline.
physics == <<pc, tick, gravity, time_step, components, body, motion, transform,
             shape, flag, collision_pairs, last_frame, events, candidates, pre,
             start, query_order, qobject, pair_entity, last_entity>>

config == <<gravity, time_step, body, shape, flag>>

Entities == DOMAIN body

Range(s) == {s[i] : i \in DOMAIN s}

\* Option<Entity>::None
NoEntity == [some |-> FALSE, v |-> 0]

\* QObject { uuid, entity }
QObject(uuid, entity) == [uuid |-> uuid, entity |-> entity]

\* A query over the component types cs matches (and `get` finds) entity e.
Has(e, cs) == cs \subseteq components[e]

\* ------------------------------------------------------------- systems
\* The chained system sets of the FixedUpdate schedule, in order.
PhaseOrder ==
    <<"PreUpdate", "VelocityIntegration", "BroadPhase", "NarrowPhase",
      "CollisionResolution", "PositionIntegration", "PostUpdate">>

\* A chain that runs the narrow phase before the broad phase.
AfterNarrowFirst(set) ==
    LET order == <<"PreUpdate", "VelocityIntegration", "NarrowPhase", "BroadPhase",
                   "CollisionResolution", "PositionIntegration", "PostUpdate">>
        i == CHOOSE k \in DOMAIN order : order[k] = set
    IN  order[(i % Len(order)) + 1]

\* A chain that integrates the positions before the velocities.
AfterPositionFirst(set) ==
    LET order == <<"PreUpdate", "PositionIntegration", "VelocityIntegration",
                   "BroadPhase", "NarrowPhase", "CollisionResolution", "PostUpdate">>
        i == CHOOSE k \in DOMAIN order : order[k] = set
    IN  order[(i % Len(order)) + 1]

\* The set the scheduler runs once `set` has completed (the first one of
\* the next tick after the last).
After(set) ==
    LET i == CHOOSE k \in DOMAIN PhaseOrder : PhaseOrder[k] = set
    IN  PhaseOrder[(i % Len(PhaseOrder)) + 1]

\* The force step applied to static bodies too.
ForceAppliedToAll(b, m, g) == [m EXCEPT !.acceleration = g]

\* The loop body of apply_forces_qsystem for one (body, motion).
ForceApplied(b, m, g) ==
    IF ~IsStatic(b) THEN [m EXCEPT !.acceleration = g] ELSE m

\* update_qobject_qsysytem: qobject.entity = Some(entity) for every entity
\* that carries a QObject.
UpdateQObject(objects) ==
    [e \in Entities |->
        IF Has(e, {"QObject"}) THEN [objects[e] EXCEPT !.entity = Some(e)]
        ELSE objects[e]]

\* The two systems of the PreUpdate set: update_qobject_qsysytem and
\* apply_forces_qsystem (they touch different components).
PreUpdate ==
    /\ pc = "PreUpdate"
    /\ tick < MaxTicks
    /\ qobject' = UpdateQObject(qobject)
    /\ motion' = [e \in Entities |->
                    IF Has(e, {"QPhysicsBody", "QMotion"})
                    THEN ForceApplied(body[e], motion[e], gravity)
                    ELSE motion[e]]
    /\ start' = [motion |-> motion, transform |-> transform]
    /\ pc' = After("PreUpdate")
    /\ UNCHANGED <<tick, config, components, transform, collision_pairs, last_frame,
                   events, candidates, pre, query_order, pair_entity, last_entity, drawing>>

\* integrate_velocities_qsystem
VelocityIntegration ==
    /\ pc = "VelocityIntegration"
    /\ motion' = [e \in Entities |->
                    IF Has(e, {"QMotion"})
                    THEN [motion[e] EXCEPT !.velocity =
                            VSatAdd(motion[e].velocity,
                                    VSatMulNum(motion[e].acceleration, time_step))]
                    ELSE motion[e]]
    /\ pc' = After("VelocityIntegration")
    /\ UNCHANGED <<tick, config, components, transform, collision_pairs, last_frame,
                   events, candidates, pre, start, query_order,
                   qobject, pair_entity, last_entity, drawing>>

World(e) == ApplyTo(transform[e], shape[e])

\* The broad-phase test with the flag gate left out.
BroadPhaseTestNoFlag(a, b) ==
    BboxIsCollide(GetBbox(World(a)), GetBbox(World(b)))

\* The two tests a pair (a, b) of the double loop must pass to be pushed.
BroadPhaseTest(a, b) ==
    /\ CanCollideWith(flag[a], flag[b])
    /\ BboxIsCollide(GetBbox(World(a)), GetBbox(World(b)))

\* The entities in the order they were spawned.
RECURSIVE SetToSeq(_)
SetToSeq(S) ==
    IF S = {} THEN <<>>
    ELSE LET m == CHOOSE x \in S : \A y \in S : x <= y
         IN  <<m>> \o SetToSeq(S \ {m})

RECURSIVE BroadPairsFromSelf(_, _, _)
\* The double loop with the inner index starting at i.
BroadPairsFromSelf(q, i, j) ==
    IF i > Len(q) THEN <<>>
    ELSE IF j > Len(q) THEN BroadPairsFromSelf(q, i + 1, i + 1)
    ELSE (IF BroadPhaseTest(q[i], q[j]) THEN <<(<<q[i], q[j]>>)>> ELSE <<>>)
         \o BroadPairsFromSelf(q, i, j + 1)

RECURSIVE BroadPairs(_, _, _)
\* for i in 0..n { for j in (i+1)..n { ... push((a, b)) } }
BroadPairs(q, i, j) ==
    IF i > Len(q) THEN <<>>
    ELSE IF j > Len(q) THEN BroadPairs(q, i + 1, i + 2)
    ELSE (IF BroadPhaseTest(q[i], q[j]) THEN <<(<<q[i], q[j]>>)>> ELSE <<>>)
         \o BroadPairs(q, i, j + 1)

\* What the broad phase leaves in the last-frame set.
LastFrameAfterBroad(old_last, pairs) == old_last \cup Range(pairs)

\* The entities the broad-phase query iterates over.
Colliders ==
    {e \in Entities :
        Has(e, {"QObject", "QCollisionShape", "QCollisionFlag", "QTransform"})}

IsCollider(e) == e \in Colliders

\* query.iter().collect(): the matching entities in storage order.
QueryOrder == SelectSeq(query_order, IsCollider)

\* The entity fields of the copies (*qobject_a, *qobject_b) pushed for pairs.
CopiedEntities(pairs) ==
    [i \in 1..Len(pairs) |->
        <<qobject[pairs[i][1]].entity, qobject[pairs[i][2]].entity>>]

\* The position of pair p in the list pairs (each pair is listed once).
IndexOf(pairs, p) == CHOOSE i \in 1..Len(pairs) : pairs[i] = p

\* HashSet::insert keeps the element already present: the copies in the
\* last-frame set are those of the first insertion of each pair.
LastEntitiesAfterBroad(old_last, pairs) ==
    [p \in LastFrameAfterBroad(old_last, pairs) |->
        IF p \in old_last THEN last_entity[p]
        ELSE pair_entity[IndexOf(pairs, p)]]

\* broad_phase_qsystem
BroadPhase ==
    /\ pc = "BroadPhase"
    /\ last_frame' = LastFrameAfterBroad(last_frame, collision_pairs)
    /\ last_entity' = LastEntitiesAfterBroad(last_frame, collision_pairs)
    /\ collision_pairs' = BroadPairs(QueryOrder, 1, 2)
    /\ pair_entity' = CopiedEntities(collision_pairs')
    /\ candidates' = collision_pairs'
    /\ pc' = After("BroadPhase")
    /\ UNCHANGED <<tick, config, components, motion, transform, events, pre,
                   start, query_order, qobject, drawing>>

\* The stream chosen by the first object's flag alone.
StreamOfFirst(a, b) == IF flag[a].is_trigger THEN "trigger" ELSE "collision"

\* The event stream of a pair: trigger if either flag is a trigger.
Stream(a, b) ==
    IF flag[a].is_trigger \/ flag[b].is_trigger THEN "trigger" ELSE "collision"

\* The kind written for a surviving pair (Enter = Started, Stay = Ongoing).
SurvivorKind(in_last_frame) == IF in_last_frame THEN "Enter" ELSE "Stay"

Event(kind, p) == [stream |-> Stream(p[1], p[2]), kind |-> kind, pair |-> p]

\* shapes.get(entity) of the narrow phase succeeds for both objects of p.
NarrowLookup(p) ==
    \A e \in {p[1], p[2]} : Has(e, {"QCollisionShape", "QCollisionFlag", "QTransform"})

\* The retain predicate with the exact test replaced by the bounding boxes.
NarrowTestByBbox(p) ==
    NarrowLookup(p) /\ BboxIsCollide(GetBbox(World(p[1])), GetBbox(World(p[2])))

\* The retain predicate with a failed lookup keeping the pair.
NarrowTestKeepMissing(p) ==
    NarrowLookup(p) => IsCollide(World(p[1]), World(p[2]))

\* collision_pairs.retain(|..| if both lookups are Ok
\*     { apply_to(a).is_collide(apply_to(b)) } else { false })
NarrowTest(p) == NarrowLookup(p) /\ IsCollide(World(p[1]), World(p[2]))

Retained(pairs) == SelectSeq(pairs, NarrowTest)

\* "Fire colliding messages": one message per surviving pair whose lookups
\* succeed, in Vec order.
CollidingEvents(pairs, last) ==
    LET found == SelectSeq(pairs, NarrowLookup)
    IN  [i \in 1..Len(found) |-> Event(SurvivorKind(found[i] \in last), found[i])]

RECURSIVE PairsToSeq(_)
\* Iteration over the HashSet (the order carries no meaning).
PairsToSeq(S) ==
    IF S = {} THEN <<>>
    ELSE LET m == CHOOSE x \in S : \A y \in S :
                    x[1] < y[1] \/ (x[1] = y[1] /\ x[2] <= y[2])
         IN  <<m>> \o PairsToSeq(S \ {m})

\* The exiting loop without the test against this frame's set.
ExitingEventsOfLast(pairs, last) ==
    LET gone == SelectSeq(PairsToSeq(last), NarrowLookup)
    IN  [i \in 1..Len(gone) |-> Event("Exit", gone[i])]

\* "Fire exiting messages": one message per pair of the last-frame set that
\* is not in this frame's set and whose lookups succeed.
ExitingEvents(pairs, last) ==
    LET gone == SelectSeq(PairsToSeq(last \ Range(pairs)), NarrowLookup)
    IN  [i \in 1..Len(gone) |-> Event("Exit", gone[i])]

\* Some copy held in the pair list has no entity: the first
\* qobject.entity.unwrap() that meets it panics.
UnwrapPanics ==
    \E i \in DOMAIN pair_entity : \E o \in Range(pair_entity[i]) : ~o.some

\* narrow_phase_qsystem (every unwrap succeeds)
NarrowPhase ==
    /\ pc = "NarrowPhase"
    /\ ~UnwrapPanics
    /\ collision_pairs' = Retained(collision_pairs)
    /\ pair_entity' = [i \in 1..Len(collision_pairs') |->
                          pair_entity[IndexOf(collision_pairs, collision_pairs'[i])]]
    /\ events' = CollidingEvents(Retained(collision_pairs), last_frame)
                 \o ExitingEvents(Retained(collision_pairs), last_frame)
    /\ pc' = After("NarrowPhase")
    /\ UNCHANGED <<tick, config, components, motion, transform, last_frame,
                   candidates, pre, start, query_order, qobject, last_entity, drawing>>

\* narrow_phase_qsystem when an unwrap meets None: the process panics in the
\* retain, before any message is written.
NarrowPhasePanic ==
    /\ pc = "NarrowPhase"
    /\ UnwrapPanics
    /\ pc' = "Panicked"
    /\ UNCHANGED <<tick, config, components, motion, transform, collision_pairs,
                   last_frame, events, candidates, pre, start, query_order,
                   qobject, pair_entity, last_entity, drawing>>

\* The positional share taken from the other body's mass.
SeparationShareOfOther(mass, other_mass, mass_sum) == SatDiv(other_mass, mass_sum)

\* The share of the separation vector a body of mass `mass` takes when the
\* other body of the pair has mass `other_mass`: mass / mass_sum.
SeparationShare(mass, other_mass, mass_sum) == SatDiv(mass, mass_sum)

\* The `continue`s before the impulse, without the one for separating bodies.
ImpulseSkipNotSeparating(van, magnitude, inv_mass_sum) ==
    magnitude = 0 \/ inv_mass_sum = 0

\* The three `continue`s before the impulse.
ImpulseSkip(van, magnitude, inv_mass_sum) ==
    magnitude = 0 \/ van < 0 \/ inv_mass_sum = 0

\* motions.get_many_mut([a, b]) and shapes.get_many_mut([a, b]) both succeed.
ResolveLookup(a, b) ==
    /\ a # b
    /\ \A e \in {a, b} :
          /\ Has(e, {"QPhysicsBody", "QMotion"})
          /\ Has(e, {"QCollisionShape", "QTransform"})

\* A sum by the `+` operator of Q64 leaves the range: the build wraps it or,
\* with overflow checks compiled in, panics.
Overflows(a, b) == a + b < QMIN \/ a + b > QMAX

\* The state the loop of collision_resolution_qsystem starts from.
LoopStart(m, t) == [motion |-> m, transform |-> t, overflow |-> FALSE]

\* The body of the loop of collision_resolution_qsystem for the pair (a, b),
\* on st = [motion, transform, overflow]; overflow records that a sum of the
\* loop so far has left the range.
ResolvePair(st, a, b) ==
    IF ~ResolveLookup(a, b) THEN st
    ELSE
    LET separation == TryGetSeparationVector(ApplyTo(st.transform[a], shape[a]),
                                             ApplyTo(st.transform[b], shape[b]))
        sep == separation.v
    IN
    IF ~separation.some THEN st
    ELSE
    LET mass_sum == PlainAdd(body[a].mass, body[b].mass)
        part_a == VNeg(VSatMulNum(sep,
                        SeparationShare(body[a].mass, body[b].mass, mass_sum)))
        part_b == VSatMulNum(sep,
                        SeparationShare(body[b].mass, body[a].mass, mass_sum))
        tr == IF mass_sum # 0
              THEN [st.transform EXCEPT
                        ![a].position = VSatAdd(@, part_a),
                        ![b].position = VSatAdd(@, part_b)]
              ELSE st.transform
        relative_velocity == VSatSub(st.motion[a].velocity, st.motion[b].velocity)
        magnitude == VLength(sep)
        separation_dir_b == DirFromVec(sep)
        vel_along_normal == ProjectionOf(separation_dir_b, relative_velocity)
        restitution == Half(SatAdd(body[a].restitution, body[b].restitution))
        inv_mass_a == InverseMass(body[a])
        inv_mass_b == InverseMass(body[b])
        separate_vel == Neg(SatMul(SatAdd(restitution, ONE), vel_along_normal))
        inv_mass_sum == PlainAdd(inv_mass_a, inv_mass_b)
        impulse_scalar == SatDiv(separate_vel, inv_mass_sum)
        impulse == VSatMulNum(separation_dir_b, impulse_scalar)
        mo == IF ImpulseSkip(vel_along_normal, magnitude, inv_mass_sum)
              THEN st.motion
              ELSE [st.motion EXCEPT
                        ![a].velocity = VSatAdd(@, VSatMulNum(impulse, inv_mass_a)),
                        ![b].velocity = VSatSub(@, VSatMulNum(impulse, inv_mass_b))]
    IN  [motion |-> mo, transform |-> tr,
         overflow |-> \/ st.overflow
                      \/ Overflows(body[a].mass, body[b].mass)
                      \/ /\ magnitude # 0 /\ vel_along_normal >= 0
                         /\ Overflows(inv_mass_a, inv_mass_b)]

RECURSIVE ResolveAll(_, _, _)
\* for (qobject_a, qobject_b) in collision_pairs.iter() { ... }
ResolveAll(st, pairs, k) ==
    IF k > Len(pairs) THEN st
    ELSE ResolveAll(ResolvePair(st, pairs[k][1], pairs[k][2]), pairs, k + 1)

\* collision_resolution_qsystem
CollisionResolution ==
    /\ pc = "CollisionResolution"
    /\ LET st == ResolveAll(LoopStart(motion, transform), collision_pairs, 1)
       IN  /\ motion' = st.motion
           /\ transform' = st.transform
    /\ pre' = [motion |-> motion, transform |-> transform]
    /\ pc' = After("CollisionResolution")
    /\ UNCHANGED <<tick, config, components, collision_pairs, last_frame, events,
                   candidates, start, query_order,
                   qobject, pair_entity, last_entity, drawing>>

\* collision_resolution_qsystem in a build with overflow checks, when one of
\* its `+` overflows: the system panics and the process ends with it. Nothing
\* runs afterwards and nothing reads the world it leaves.
CollisionResolutionPanic ==
    /\ pc = "CollisionResolution"
    /\ ResolveAll(LoopStart(motion, transform), collision_pairs, 1).overflow
    /\ pc' = "Panicked"
    /\ UNCHANGED <<tick, config, components, motion, transform, collision_pairs,
                   last_frame, events, candidates, pre, start, query_order,
                   qobject, pair_entity, last_entity, drawing>>

\* QDir::rotate by an angle; bodies of the model do not spin.
RotateDir(d, angle) == CASE angle = 0 -> d

\* integrate_positions_qsystem
PositionIntegration ==
    /\ pc = "PositionIntegration"
    /\ transform' = [e \in Entities |->
            IF Has(e, {"QTransform", "QMotion"})
            THEN [transform[e] EXCEPT
                    !.position = VSatAdd(@, VSatMulNum(motion[e].velocity, time_step)),
                    !.rotation = RotateDir(@, SatMul(motion[e].angular_velocity,
                                                     time_step))]
            ELSE transform[e]]
    /\ pc' = After("PositionIntegration")
    /\ UNCHANGED <<tick, config, components, motion, collision_pairs, last_frame,
                   events, candidates, pre, start, query_order,
                   qobject, pair_entity, last_entity, drawing>>

\* debug_render_qsystem: draws, changes nothing; the tick is over.
PostUpdate ==
    /\ pc = "PostUpdate"
    /\ pc' = After("PostUpdate")
    /\ tick' = tick + 1
    /\ UNCHANGED <<config, components, motion, transform, collision_pairs,
                   last_frame, events, candidates, pre, start, query_order,
                   qobject, pair_entity, last_entity, drawing>>

Next ==
    \/ PreUpdate
    \/ VelocityIntegration
    \/ BroadPhase
    \/ NarrowPhase
    \/ CollisionResolution
    \/ PositionIntegration
    \/ PostUpdate

\* The storage order once entity e is gone: the engine fills the row of a
\* despawned entity with the last row of its table (swap-remove); one table
\* holds the entities that carry the same set of components.
SwapRemove(q, e) ==
    LET table == SelectSeq(q, LAMBDA x : components[x] = components[e])
        last == table[Len(table)]
        swapped == [k \in DOMAIN q |->
                        IF q[k] = e THEN last ELSE IF q[k] = last THEN e ELSE q[k]]
    IN  SelectSeq(swapped, LAMBDA x : x # e)

\* An entity of the world is despawned between two systems of the pipeline
\* (by a system outside the physics sets): all its components go.
Despawn(e) ==
    /\ components[e] # {}
    /\ components' = [components EXCEPT ![e] = {}]
    /\ query_order' = SwapRemove(query_order, e)
    /\ UNCHANGED <<pc, tick, config, motion, transform, collision_pairs, last_frame,
                   events, candidates, pre, start,
                   qobject, pair_entity, last_entity, drawing>>

NextLookup ==
    \/ Next
    \/ \E e \in Entities : Despawn(e)

NextOverflow ==
    \/ Next
    \/ CollisionResolutionPanic

\* ------------------------------------------------------- shape editor
\* Option<QShapeType>::None
NoShapeType == [some |-> FALSE, v |-> ""]

\* QShapeType
ShapeTypes == {"QPoint", "QLine", "QBbox", "QCircle", "QPolygon"}

\* ShapeDrawingState { start_position, current_shape, selected_shape_type }
DrawingState(start_position, current_shape, selected_shape_type) ==
    [start_position |-> start_position, current_shape |-> current_shape,
     selected_shape_type |-> selected_shape_type]

\* QVec2::round: each component to the nearest integer, ties away from zero.
RoundQ(x) ==
    IF x >= 0 THEN ((x + ONE \div 2) \div ONE) * ONE
    ELSE -(((-x + ONE \div 2) \div ONE) * ONE)

\* "Convert world coordinates to QVec2", rounded when snapping is on.
QWorldPos(world_pos, enable_snap) ==
    IF enable_snap THEN <<RoundQ(world_pos[1]), RoundQ(world_pos[2])>> ELSE world_pos

\* QVec2::saturating_add_num
VSatAddNum(v, n) == <<SatAdd(v[1], n), SatAdd(v[2], n)>>

\* The vector order as the lexicographic order of (x, y).
LexicographicCmp(a, b) ==
    IF a = b THEN "Equal"
    ELSE IF a[1] < b[1] \/ (a[1] = b[1] /\ a[2] < b[2]) THEN "Less"
    ELSE "Greater"

\* The vector order as the order of both components: no answer when one
\* component is smaller and the other larger.
ComponentwiseCmp(a, b) ==
    IF a = b THEN "Equal"
    ELSE IF a[1] <= b[1] /\ a[2] <= b[2] THEN "Less"
    ELSE IF a[1] >= b[1] /\ a[2] >= b[2] THEN "Greater"
    ELSE "None"

\* QVec2::partial_cmp: the answers of the two vector orders the library may
\* implement.
PartialCmp(a, b) == {LexicographicCmp(a, b), ComponentwiseCmp(a, b)}

\* A despawn command that is never applied.
WithoutShapeLeft(shapes, entity) == shapes

\* commands.entity(entity).despawn()
WithoutShape(shapes, entity) ==
    [e \in DOMAIN shapes \ {entity} |-> shapes[e]]

\* commands.entity(entity).insert(data): nothing for an entity that is gone.
WithData(shapes, entity, data) ==
    IF entity \in DOMAIN shapes THEN [shapes EXCEPT ![entity] = data] ELSE shapes

\* commands.spawn((EditorShape, data, ..)).id()
WithSpawned(shapes, entity, data) ==
    [e \in DOMAIN shapes \cup {entity} |-> IF e = entity THEN data ELSE shapes[e]]

\* What one run of the system leaves.
Outcome(state, shapes, count, panicked) ==
    [state |-> state, shapes |-> shapes, spawned |-> count, panicked |-> panicked]

\* "Update the selected shape type based on UI state": the test of the reset.
SelectionChanged ==
    \/ ~ui_state.selected_shape.some
    \/ ui_state.selected_shape # shape_drawing_state.selected_shape_type

\* The reset branch: the shape being drawn is despawned, the drawing state
\* is cleared and takes the UI's selection.
ResetDrawing ==
    Outcome(DrawingState(None, NoEntity, ui_state.selected_shape),
            IF shape_drawing_state.current_shape.some
            THEN WithoutShape(editor_shapes, shape_drawing_state.current_shape.v)
            ELSE editor_shapes,
            spawned, FALSE)

\* "Handle ongoing shape drawing": the data the shape in progress gets for
\* the cursor at qworld_pos, or the shapes as they are when the branch
\* inserts nothing. `order` is the answer of partial_cmp. `returns` tells
\* that the system returns in this branch.
Ongoing(shape_type, qworld_pos, order) ==
    LET st == shape_drawing_state
        entity == st.current_shape.v
        start_pos == st.start_position.v
        keep == [shapes |-> editor_shapes, returns |-> FALSE]
        stop == [shapes |-> editor_shapes, returns |-> TRUE]
        put(data) == [shapes |-> WithData(editor_shapes, entity, data),
                      returns |-> FALSE]
    IN  IF shape_type # "QPolygon"
        THEN IF ~st.start_position.some THEN keep
             ELSE IF start_pos = qworld_pos THEN stop
             ELSE CASE shape_type = "QPoint" -> put(Point(qworld_pos))
                    [] shape_type = "QLine" -> put(Line(start_pos, qworld_pos))
                    [] shape_type = "QBbox" ->
                         IF order # "Less" THEN stop
                         ELSE IF start_pos[1] = qworld_pos[1]
                                 \/ start_pos[2] = qworld_pos[2] THEN stop
                         ELSE put(Rectangle(start_pos, qworld_pos))
                    [] shape_type = "QCircle" ->
                         put(Circle(start_pos,
                                    VLength(<<qworld_pos[1] - start_pos[1],
                                              qworld_pos[2] - start_pos[2]>>)))
        ELSE IF entity \in DOMAIN editor_shapes
             THEN LET points == editor_shapes[entity].pts
                  IN  put(Polygon([points EXCEPT ![Len(points)] = qworld_pos]))
             ELSE keep

\* "Start drawing a new shape": the data of the shape a left click spawns.
NewShape(shape_type, qworld_pos) ==
    CASE shape_type = "QLine" -> Line(qworld_pos, VSatAddNum(qworld_pos, EPS))
      [] shape_type = "QBbox" -> Rectangle(qworld_pos, VSatAddNum(qworld_pos, EPS))
      [] shape_type = "QCircle" -> Circle(qworld_pos, EPS)
      [] shape_type = "QPolygon" -> Polygon(<<qworld_pos, qworld_pos>>)

\* The end of a drawing that clears current_shape only.
FinishedKeepingStart(state) == [state EXCEPT !.current_shape = NoEntity]

\* The drawing state once the shape in progress is finished:
\* start_position = None; current_shape = None.
Finished(state) == DrawingState(None, NoEntity, state.selected_shape_type)

\* No shape type is spawned by the cursor alone.
SpawnsAtCursorNever(selected_shape_type) == FALSE

\* With no shape in progress, the selected type is spawned at the cursor at
\* once, without a click: selected_shape_type == Some(QShapeType::QPoint).
SpawnsAtCursor(selected_shape_type) == selected_shape_type = Some("QPoint")

\* The right-click and left-click handling, on the shapes as the ongoing
\* drawing left them.
Clicks(shape_type, qworld_pos, shapes, buttons) ==
    LET st == shape_drawing_state
        entity == st.current_shape.v
        done == Finished(st)
    IN  IF "Right" \in buttons /\ st.current_shape.some /\ shape_type = "QPolygon"
        THEN Outcome(done, shapes, spawned, FALSE)
        ELSE IF "Left" \notin buttons THEN Outcome(st, shapes, spawned, FALSE)
        ELSE IF st.current_shape.some
        THEN IF shape_type # "QPolygon" THEN Outcome(done, shapes, spawned, FALSE)
             ELSE IF entity \in DOMAIN shapes
             THEN Outcome(st, WithData(shapes, entity,
                                       Polygon(Append(shapes[entity].pts, qworld_pos))),
                          spawned, FALSE)
             ELSE Outcome(st, shapes, spawned, FALSE)
        ELSE IF shape_type = "QPoint"
        THEN Outcome([st EXCEPT !.start_position = Some(qworld_pos)],
                     shapes, spawned, TRUE)
        ELSE Outcome(DrawingState(Some(qworld_pos), Some(spawned + 1),
                                  st.selected_shape_type),
                     WithSpawned(shapes, spawned + 1, NewShape(shape_type, qworld_pos)),
                     spawned + 1, FALSE)

\* handle_shape_interaction, from the inputs of the frame: over_ui, the
\* cursor in world coordinates (or None), the buttons just pressed, and the
\* answer of partial_cmp.
Handled(over_ui, cursor, buttons, order) ==
    LET st == shape_drawing_state
        same == Outcome(st, editor_shapes, spawned, FALSE)
    IN  IF over_ui THEN same
        ELSE IF SelectionChanged THEN ResetDrawing
        ELSE IF ~cursor.some THEN same
        ELSE LET qworld_pos == QWorldPos(cursor.v, ui_state.enable_snap)
                 shape_type == st.selected_shape_type.v
             IN  IF st.current_shape.some
                 THEN LET ongoing == Ongoing(shape_type, qworld_pos, order)
                      IN  IF ongoing.returns THEN same
                          ELSE Clicks(shape_type, qworld_pos, ongoing.shapes, buttons)
                 ELSE IF SpawnsAtCursor(st.selected_shape_type)
                 THEN Outcome(DrawingState(Some(qworld_pos), Some(spawned + 1),
                                           st.selected_shape_type),
                              WithSpawned(editor_shapes, spawned + 1, Point(qworld_pos)),
                              spawned + 1, FALSE)
                 ELSE Clicks(shape_type, qworld_pos, editor_shapes, buttons)

\* The world positions of the cursor: the origin, a point above it and to
\* its right that is off the grid, a point below it and to its right.
CursorPositions ==
    {None, Some(<<0, 0>>), Some(<<ONE, ONE \div 2>>), Some(<<ONE, -ONE>>)}

\* The inputs of a frame: the pointer over the UI (nothing else is read
\* then), or no cursor in the world (the buttons are not read then), or a
\* cursor position and the buttons just pressed.
FrameInputs ==
    {[over_ui |-> TRUE, cursor |-> None, buttons |-> {}],
     [over_ui |-> FALSE, cursor |-> None, buttons |-> {}]}
    \cup [over_ui : {FALSE}, cursor : CursorPositions \ {None},
          buttons : SUBSET {"Left", "Right"}]

\* The answers partial_cmp may give for the start corner and the cursor.
OrdersFor(cursor) ==
    IF cursor.some /\ shape_drawing_state.start_position.some
    THEN PartialCmp(shape_drawing_state.start_position.v,
                    QWorldPos(cursor.v, ui_state.enable_snap))
    ELSE {"Equal"}

\* The longest vertex list of a polygon in the world.
LongestPolygon(shapes) ==
    LET lens == {Len(shapes[e].pts) : e \in DOMAIN shapes} \cup {0}
    IN  CHOOSE n \in lens : \A k \in lens : k <= n

\* One frame: the input resources are refreshed and handle_shape_interaction
\* runs.
HandleShapeInteraction ==
    /\ draw_pc = "Running"
    /\ \E in \in FrameInputs :
          \E order \in OrdersFor(in.cursor) :
             LET out == Handled(in.over_ui, in.cursor, in.buttons, order)
             IN  /\ out.spawned <= MaxShapes
                 /\ LongestPolygon(out.shapes) <= MaxPoints
                 /\ mouse_over_ui' = in.over_ui
                 /\ shape_drawing_state' = out.state
                 /\ editor_shapes' = out.shapes
                 /\ spawned' = out.spawned
                 /\ draw_pc' = IF out.panicked THEN "Panicked" ELSE "Running"
    /\ UNCHANGED <<ui_state, physics>>

\* The UI panel: a shape type is selected or the selection is cleared.
SelectShape(selection) ==
    /\ draw_pc = "Running"
    /\ ui_state.selected_shape # selection
    /\ ui_state' = [ui_state EXCEPT !.selected_shape = selection]
    /\ UNCHANGED <<shape_drawing_state, mouse_over_ui, editor_shapes, spawned,
                   draw_pc, physics>>

NextDraw ==
    \/ HandleShapeInteraction
    \/ \E selection \in {NoShapeType} \cup {Some(t) : t \in ShapeTypes} :
          SelectShape(selection)

\* ------------------------------------------------------- initial states
\* QPhysicsConfig::default()
GravityDefault == <<0, Q(-10)>>

TimeStepDefault == ONE \div 10

\* The local shape of the pipeline's entities: the rectangle (0,0)-(2,2).
Square == Rectangle(<<0, 0>>, <<Q(2), Q(2)>>)

\* The right triangle (0,0), (2,0), (0,2): the lower-left half of Square.
Triangle == Polygon(<<(<<0, 0>>), (<<Q(2), 0>>), (<<0, Q(2)>>)>>)

Body(m, r) == [mass |-> m, restitution |-> r, friction |-> 0]

\* QPhysicsBody::static_body
StaticBody(r, f) == [mass |-> 0, restitution |-> r, friction |-> f]

MotionWith(v, a) == [velocity |-> v, angular_velocity |-> 0, acceleration |-> a]

Motion(v) == MotionWith(v, <<0, 0>>)

Transform(p) == [position |-> p, rotation |-> DirDefault, scale |-> <<ONE, ONE>>]

Flag(t, l, m) == [is_trigger |-> t, collision_layer |-> l, collision_mask |-> m]

AllOnes == 2 ^ FlagBits - 1

\* The components of a collider without a body, and of a physics object.
ColliderBundle == {"QObject", "QCollisionShape", "QCollisionFlag", "QTransform"}

PhysicsBundle == ColliderBundle \cup {"QPhysicsBody", "QMotion"}

\* Layer / mask combinations of the pipeline runs: the default flag, a
\* layer-2 object seen by and seeing layer 1, a layer-2 object seeing only
\* layer 2.
PipelineFlags == {<<1, AllOnes>>, <<2, 1>>, <<2, 2>>}

\* ShapeDrawingState at its default, nothing selected in the UI, snapping as
\* one of snaps, no shape.
DrawingStartUp(snaps) ==
    /\ ui_state \in [selected_shape : {NoShapeType}, enable_snap : snaps]
    /\ shape_drawing_state = DrawingState(None, NoEntity, NoShapeType)
    /\ mouse_over_ui = FALSE
    /\ editor_shapes = << >>
    /\ spawned = 0
    /\ draw_pc = "Running"

\* The resources and histories of the physics pipeline at start-up.
PhysicsStartUp ==
    /\ pc = "PreUpdate"
    /\ tick = 0
    /\ time_step = TimeStepDefault
    /\ collision_pairs = <<>>
    /\ last_frame = {}
    /\ events = <<>>
    /\ candidates = <<>>
    /\ pre = [motion |-> motion, transform |-> transform]
    /\ start = [motion |-> motion, transform |-> transform]
    /\ query_order = SetToSeq({e \in Entities : components[e] # {}})
    /\ qobject = [e \in Entities |-> QObject(e, NoEntity)]
    /\ pair_entity = <<>>
    /\ last_entity = <<>>

\* The resources and histories at start-up (UiState::default() snaps).
StartUp == PhysicsStartUp /\ DrawingStartUp({TRUE})

PipelineInit(masses, restitutions, xs1, xs2, ys2, vxs, vys, triggers, lms, gs) ==
    /\ gravity \in gs
    /\ components = [e \in {1, 2} |-> PhysicsBundle]
    /\ body \in [{1, 2} -> {Body(m, r) : m \in masses, r \in restitutions}]
    /\ motion \in [{1, 2} -> {Motion(<<vx, vy>>) : vx \in vxs, vy \in vys}]
    /\ \E x1 \in xs1, x2 \in xs2, y2 \in ys2 :
          transform = (1 :> Transform(<<x1, 0>>)) @@ (2 :> Transform(<<x2, y2>>))
    /\ shape = [e \in {1, 2} |-> Square]
    /\ flag \in [{1, 2} -> {Flag(t, lm[1], lm[2]) : t \in triggers, lm \in lms}]
    /\ StartUp

\* Two entities that meet, part and pass each other along the x axis.
Init ==
    PipelineInit({0, Q(1)}, {ONE}, {0}, {Q(1) + ONE \div 2, Q(3) + ONE \div 2}, {0},
                 {Q(-10), 0, Q(10)}, {0}, BOOLEAN, PipelineFlags, {GravityDefault})

Spec == Init /\ [][Next]_vars

\* Two overlapping bodies of every mix of masses, restitutions and velocities.
InitResolve ==
    PipelineInit({Q(-1), 0, (3 * ONE) \div 4, Q(1), Q(2), Q(3)}, {0, ONE}, {0},
                 {Q(1) + ONE \div 2, -(Q(1) + ONE \div 2), ONE \div 4}, {0, Q(1) + ONE \div 4},
                 {Q(-2), 0, Q(2)}, {0}, {FALSE}, {<<1, AllOnes>>}, {GravityDefault})

SpecResolve == InitResolve /\ [][Next]_vars

\* Every layer and mask word of FlagBits bits, on two overlapping bodies.
FlagWords == 0..AllOnes

InitFlags ==
    PipelineInit({Q(1)}, {ONE}, {0}, {Q(1) + ONE \div 2}, {0}, {0}, {0}, BOOLEAN,
                 FlagWords \X FlagWords, {GravityDefault})

SpecFlags == InitFlags /\ [][Next]_vars

\* Static and dynamic bodies that start with an acceleration of their own,
\* under two gravity vectors.
InitForces ==
    /\ gravity \in {GravityDefault, <<Q(1), Q(-2)>>}
    /\ components = [e \in {1, 2} |-> PhysicsBundle]
    /\ body \in [{1, 2} -> {Body(m, ONE) : m \in {0, Q(1)}}]
    /\ motion \in [{1, 2} -> {MotionWith(<<vx, 0>>, a) :
                                vx \in {0, Q(2)}, a \in {<<0, 0>>, <<Q(3), Q(1)>>}}]
    /\ transform = (1 :> Transform(<<0, 0>>)) @@ (2 :> Transform(<<Q(3), 0>>))
    /\ shape = [e \in {1, 2} |-> Square]
    /\ flag = [e \in {1, 2} |-> Flag(FALSE, 1, AllOnes)]
    /\ StartUp

SpecForces == InitForces /\ [][Next]_vars

\* A physics object next to an object that may lack its body and motion;
\* either may be despawned at any point of the pipeline.
InitLookup ==
    /\ gravity = GravityDefault
    /\ components \in [{1, 2} -> {PhysicsBundle, ColliderBundle}]
    /\ body = [e \in {1, 2} |-> Body(Q(1), ONE)]
    /\ motion \in [{1, 2} -> {Motion(<<vx, 0>>) : vx \in {Q(-5), 0}}]
    /\ \E x2 \in {Q(1) + ONE \div 2, Q(3)} :
          transform = (1 :> Transform(<<0, 0>>)) @@ (2 :> Transform(<<x2, 0>>))
    /\ shape = [e \in {1, 2} |-> Square]
    /\ flag \in [{1, 2} -> {Flag(t, 1, AllOnes) : t \in BOOLEAN}]
    /\ StartUp

SpecLookup == InitLookup /\ [][NextLookup]_vars

\* A collider without a body, square or triangular, and a moving physics
\* object, square or triangular, around it.
InitNarrow ==
    /\ gravity = GravityDefault
    /\ components = (1 :> ColliderBundle) @@ (2 :> PhysicsBundle)
    /\ body = [e \in {1, 2} |-> Body(Q(1), ONE)]
    /\ motion \in [{1, 2} -> {Motion(<<vx, 0>>) : vx \in {Q(-5), 0, Q(5)}}]
    /\ \E x2 \in {-(Q(1) + ONE \div 2), Q(1) + ONE \div 2, Q(3)},
          y2 \in {-(Q(1) + ONE \div 2), 0, Q(1) + ONE \div 2} :
          transform = (1 :> Transform(<<0, 0>>)) @@ (2 :> Transform(<<x2, y2>>))
    /\ shape \in [{1, 2} -> {Square, Triangle}]
    /\ flag \in [{1, 2} -> {Flag(FALSE, lm[1], lm[2]) : lm \in PipelineFlags}]
    /\ StartUp

SpecNarrow == InitNarrow /\ [][Next]_vars

\* The four rotations by a multiple of a quarter turn, as (cos, sin).
QuarterTurns == {<<ONE, 0>>, <<0, ONE>>, <<-ONE, 0>>, <<0, -ONE>>}

\* Shapes of every variant, with circles down to the smallest radius.
ShapeSamples ==
    {Point(<<Q(2), Q(1)>>),
     Line(<<Q(1), 0>>, <<Q(2), Q(1)>>),
     Circle(<<Q(1), Q(1)>>, Q(1)),
     Circle(<<Q(1), Q(1)>>, ONE \div 2),
     Circle(<<Q(1), Q(1)>>, EPS),
     Rectangle(<<0, 0>>, <<Q(2), Q(1)>>),
     Polygon(<<(<<0, 0>>), (<<Q(2), 0>>), (<<0, Q(1)>>)>>)}

\* Uniform, non-uniform, mirrored, vanishing and small scales.
ScaleSamples == {<<Q(1), Q(1)>>, <<Q(2), Q(2)>>, <<Q(2), Q(1)>>, <<Q(1), Q(3)>>,
                 <<Q(-1), Q(2)>>, <<0, Q(1)>>, <<ONE \div 16, ONE \div 16>>}

\* A collider of every variant under every sampled transform, and a square
\* far away from it.
InitApply ==
    /\ gravity = GravityDefault
    /\ components = [e \in {1, 2} |-> ColliderBundle]
    /\ body = [e \in {1, 2} |-> StaticBody(ONE, 0)]
    /\ motion = [e \in {1, 2} |-> Motion(<<0, 0>>)]
    /\ \E r \in QuarterTurns, s \in ScaleSamples, p \in {<<0, 0>>, <<Q(3), Q(-1)>>} :
          transform = (1 :> [position |-> p, rotation |-> r, scale |-> s])
                      @@ (2 :> Transform(<<Q(50), Q(50)>>))
    /\ \E s \in ShapeSamples : shape = (1 :> s) @@ (2 :> Square)
    /\ flag = [e \in {1, 2} |-> Flag(FALSE, 1, AllOnes)]
    /\ StartUp

SpecApply == InitApply /\ [][Next]_vars

\* One convex shape of every variant, all inside the box (0,0)-(2,2).
ConvexSamples ==
    {Point(<<Q(1), Q(1)>>),
     Line(<<0, 0>>, <<Q(2), Q(2)>>),
     Circle(<<Q(1), Q(1)>>, Q(1)),
     Square,
     Triangle}

\* A static and a dynamic object at rest, of every pair of variants, at
\* offsets where they overlap, touch, or only their boxes overlap.
InitShapes ==
    /\ gravity = <<0, 0>>
    /\ components = [e \in {1, 2} |-> PhysicsBundle]
    /\ body = (1 :> StaticBody(ONE, 0)) @@ (2 :> Body(Q(1), ONE))
    /\ motion = [e \in {1, 2} |-> Motion(<<0, 0>>)]
    /\ \E x2 \in {-(Q(1) + ONE \div 2), ONE \div 2, Q(1) + ONE \div 2},
          y2 \in {0, Q(1) + ONE \div 2} :
          transform = (1 :> Transform(<<0, 0>>)) @@ (2 :> Transform(<<x2, y2>>))
    /\ shape \in [{1, 2} -> ConvexSamples]
    /\ flag = [e \in {1, 2} |-> Flag(FALSE, 1, AllOnes)]
    /\ StartUp

SpecShapes == InitShapes /\ [][Next]_vars

\* Two overlapping bodies with masses from the smallest positive value to a
\* hundred units.
InitOverflow ==
    PipelineInit({EPS, 3 * EPS, Q(1), Q(64), Q(100)}, {ONE}, {0},
                 {Q(1) + ONE \div 2}, {0},
                 {Q(-2), 0, Q(2)}, {0}, {FALSE}, {<<1, AllOnes>>}, {GravityDefault})

SpecOverflow == InitOverflow /\ [][NextOverflow]_vars

\* Three objects that start at rest: in a row with the middle one
\* overlapping both neighbours; as a stair where pushing the middle one off
\* the first takes it off the third; and with the third beside the slanted
\* edge of the second.
ThreePlaces ==
    {<<(<<Q(1) + ONE \div 2, 0>>), (<<Q(3), 0>>)>>,
     <<(<<Q(1) + ONE \div 2, Q(1)>>), (<<-(ONE \div 4), Q(2) + ONE \div 2>>)>>,
     <<(<<Q(1) + ONE \div 2, 0>>), (<<Q(3), Q(1) + ONE \div 2>>)>>}

InitThree ==
    /\ gravity = <<0, 0>>
    /\ components = [e \in {1, 2, 3} |-> PhysicsBundle]
    /\ \E m \in {0, Q(1)} :
          body = (1 :> Body(m, ONE)) @@ (2 :> Body(Q(1), ONE)) @@ (3 :> Body(Q(1), ONE))
    /\ \E vx \in {Q(-2), 0} :
          motion = (1 :> Motion(<<0, 0>>)) @@ (2 :> Motion(<<0, 0>>))
                   @@ (3 :> Motion(<<vx, 0>>))
    /\ \E pl \in ThreePlaces :
          transform = (1 :> Transform(<<0, 0>>)) @@ (2 :> Transform(pl[1]))
                      @@ (3 :> Transform(pl[2]))
    /\ \E s2 \in {Square, Triangle}, s3 \in {Square, Triangle} :
          shape = (1 :> Square) @@ (2 :> s2) @@ (3 :> s3)
    /\ flag = [e \in {1, 2, 3} |-> Flag(FALSE, 1, AllOnes)]
    /\ StartUp

SpecThree == InitThree /\ [][Next]_vars

\* Two overlapping objects and a third one apart from them, spawned first;
\* any of them may be despawned.
InitOrder ==
    /\ gravity = GravityDefault
    /\ components = [e \in {1, 2, 3} |-> PhysicsBundle]
    /\ \E m \in {0, Q(1)} :
          body = (1 :> Body(Q(1), ONE)) @@ (2 :> Body(0, ONE)) @@ (3 :> Body(m, ONE))
    /\ motion = [e \in {1, 2, 3} |-> Motion(<<0, 0>>)]
    /\ transform = (1 :> Transform(<<Q(-5), 0>>)) @@ (2 :> Transform(<<0, 0>>))
                   @@ (3 :> Transform(<<Q(1) + ONE \div 2, 0>>))
    /\ shape = [e \in {1, 2, 3} |-> Square]
    /\ \E t \in BOOLEAN :
          flag = (1 :> Flag(FALSE, 1, AllOnes)) @@ (2 :> Flag(FALSE, 1, AllOnes))
                 @@ (3 :> Flag(t, 1, AllOnes))
    /\ StartUp

SpecOrder == InitOrder /\ [][NextLookup]_vars

\* An entity is spawned between two systems of the pipeline (by a system
\* outside the physics sets) with the bundle of a physics object and a
\* QObject whose entity is None; e is an id that was never in use.
Spawn(e) ==
    /\ components[e] = {}
    /\ ~qobject[e].entity.some
    /\ e \notin Range(query_order)
    /\ \A p \in last_frame \cup Range(collision_pairs) : e \notin Range(p)
    /\ components' = [components EXCEPT ![e] = PhysicsBundle]
    /\ query_order' = Append(query_order, e)
    /\ UNCHANGED <<pc, tick, config, motion, transform, collision_pairs, last_frame,
                   events, candidates, pre, start, qobject, pair_entity, last_entity, drawing>>

NextSpawn ==
    \/ Next
    \/ NarrowPhasePanic
    \/ \E e \in Entities : Spawn(e)

\* Two overlapping objects, and a third one over them that is spawned at some
\* point of the run.
InitSpawn ==
    /\ gravity = GravityDefault
    /\ components = (1 :> PhysicsBundle) @@ (2 :> PhysicsBundle) @@ (3 :> {})
    /\ \E m \in {0, Q(1)} :
          body = (1 :> Body(Q(1), ONE)) @@ (2 :> Body(0, ONE)) @@ (3 :> Body(m, ONE))
    /\ motion = [e \in {1, 2, 3} |-> Motion(<<0, 0>>)]
    /\ transform = (1 :> Transform(<<0, 0>>)) @@ (2 :> Transform(<<Q(1), 0>>))
                   @@ (3 :> Transform(<<Q(1) + ONE \div 2, 0>>))
    /\ shape = [e \in {1, 2, 3} |-> Square]
    /\ flag = [e \in {1, 2, 3} |-> Flag(FALSE, 1, AllOnes)]
    /\ StartUp

SpecSpawn == InitSpawn /\ [][NextSpawn]_vars

\* The editor with no physics object in the world, snapping on (the default)
\* or switched off in the panel.
InitDraw ==
    /\ gravity = GravityDefault
    /\ components = << >>
    /\ body = << >>
    /\ motion = << >>
    /\ transform = << >>
    /\ shape = << >>
    /\ flag = << >>
    /\ PhysicsStartUp
    /\ DrawingStartUp(BOOLEAN)

SpecDraw == InitDraw /\ [][NextDraw]_vars

\* ---------------------------------------------------------- properties
AfterNarrow == pc \in {"CollisionResolution", "PositionIntegration", "PostUpdate"}

AllPairs == Entities \X Entities

\* Number of messages of one of `kinds` written for pair p in the sequence ev.
Count(ev, kinds, p) ==
    Cardinality({i \in DOMAIN ev : ev[i].kind \in kinds /\ ev[i].pair = p})

\* The collision resolution of this tick has run.
Resolved == pc = "PositionIntegration"

\* What the resolution changed, per entity.
Displacement(e) == VSatSub(transform[e].position, pre.transform[e].position)

VelocityChange(e) == VSatSub(motion[e].velocity, pre.motion[e].velocity)

\* The separation vector the resolution of pair p started from.
SeparationOf(p) ==
    TryGetSeparationVector(ApplyTo(pre.transform[p[1]], shape[p[1]]),
                           ApplyTo(pre.transform[p[2]], shape[p[2]]))

\* The resolution handled exactly one pair.
ResolvedOne == Resolved /\ Len(collision_pairs) = 1

OnlyPair == collision_pairs[1]

\* C1: after the narrow phase, every Enter/Started message is for a pair
\* absent from the last-frame snapshot and every Stay/Ongoing message for a
\* pair present in it, and every surviving pair has one of the two.
C1_EnterIffAbsentFromSnapshot ==
    AfterNarrow =>
        /\ \A i \in DOMAIN events :
              /\ events[i].kind = "Enter" => events[i].pair \notin last_frame
              /\ events[i].kind = "Stay" => events[i].pair \in last_frame
        /\ \A p \in Range(collision_pairs) : Count(events, {"Enter", "Stay"}, p) = 1

\* C2: a pair that collided in the previous tick and does not collide in
\* this one gets exactly one Exit/Ended message in this tick; a pair that
\* collided in neither tick gets no Exit/Ended and no Stay/Ongoing message.
C2_ExitExactlyOnce ==
    [][pc = "NarrowPhase" =>
        \A p \in AllPairs :
            LET before == Count(events, {"Enter", "Stay"}, p) > 0
                now    == p \in Range(collision_pairs')
            IN  /\ (before /\ ~now) => Count(events', {"Exit"}, p) = 1
                /\ (~before /\ ~now) => Count(events', {"Exit", "Stay"}, p) = 0]_vars

\* C3: the broad phase replaces the last-frame snapshot by exactly the set
\* of pairs that survived the previous tick's narrow phase.
C3_SnapshotIsPreviousSurvivors ==
    [][pc = "BroadPhase" => last_frame' = Range(collision_pairs)]_vars

\* C4: a collision-resolution step leaves the position and the velocity of
\* every body with mass <= 0 unchanged.
C4_StaticBodyUnmoved ==
    Resolved =>
        \A e \in Entities :
            IsStatic(body[e]) =>
                Displacement(e) = <<0, 0>> /\ VelocityChange(e) = <<0, 0>>

\* C5: when one pair of positive-mass bodies is resolved, each body moves by
\* the separation vector scaled by the other body's share of the mass sum,
\* and the heavier body moves strictly less than the lighter one.
C5_DisplacementByOtherShare ==
    ResolvedOne =>
        LET a == OnlyPair[1]
            b == OnlyPair[2]
            ma == body[a].mass
            mb == body[b].mass
            sep == SeparationOf(OnlyPair)
        IN  (ma > 0 /\ mb > 0 /\ sep.some /\ VLength(sep.v) > 0) =>
                /\ Displacement(a) = VNeg(VSatMulNum(sep.v, SatDiv(mb, ma + mb)))
                /\ Displacement(b) = VSatMulNum(sep.v, SatDiv(ma, ma + mb))
                /\ ma > mb => VLength(Displacement(a)) < VLength(Displacement(b))
                /\ mb > ma => VLength(Displacement(b)) < VLength(Displacement(a))

\* The dynamic/static case of C6 for the one resolved pair, dynamic body first.
DynamicThenStatic ==
    /\ ResolvedOne /\ SeparationOf(OnlyPair).some
    /\ body[OnlyPair[1]].mass > 0 /\ body[OnlyPair[2]].mass = 0

StaticThenDynamic ==
    /\ ResolvedOne /\ SeparationOf(OnlyPair).some
    /\ body[OnlyPair[1]].mass = 0 /\ body[OnlyPair[2]].mass > 0

\* C6: when a pair of one dynamic body (mass > 0) and one static body
\* (mass 0) is resolved, the dynamic body moves by the whole separation
\* vector and the static body does not move, in either order of the pair.
C6_DynamicTakesFullSeparation ==
    /\ DynamicThenStatic =>
          /\ Displacement(OnlyPair[1]) = VNeg(SeparationOf(OnlyPair).v)
          /\ Displacement(OnlyPair[2]) = <<0, 0>>
    /\ StaticThenDynamic =>
          /\ Displacement(OnlyPair[1]) = <<0, 0>>
          /\ Displacement(OnlyPair[2]) = SeparationOf(OnlyPair).v

\* C6 witness: a dynamic first body that overlapped a static second body has
\* been pushed back by a non-zero separation vector.
C6_Witness ==
    /\ DynamicThenStatic
    /\ VLength(SeparationOf(OnlyPair).v) > 0
    /\ Displacement(OnlyPair[1]) # <<0, 0>>

\* The velocities along the separation normal before and after the step.
Normal == DirFromVec(SeparationOf(OnlyPair).v)

NormalVelocityBefore(e) == ProjectionOf(Normal, pre.motion[e].velocity)

NormalVelocityAfter(e) == ProjectionOf(Normal, motion[e].velocity)

\* The head-on case of C7 for the one resolved pair: equal positive masses,
\* restitution 1 on both, normal velocities u and -u, approaching.
HeadOn ==
    LET a == OnlyPair[1]
        b == OnlyPair[2]
    IN  /\ ResolvedOne
        /\ SeparationOf(OnlyPair).some /\ VLength(SeparationOf(OnlyPair).v) > 0
        /\ body[a].mass = body[b].mass /\ body[a].mass > 0
        /\ body[a].restitution = ONE /\ body[b].restitution = ONE
        /\ NormalVelocityBefore(a) > 0
        /\ NormalVelocityBefore(b) = -NormalVelocityBefore(a)

ExactInverse(b) == SatMul(InverseMass(b), b.mass) = ONE

\* Rounding error of the velocity change, in raw units: one for the product
\* impulse * inverse mass, and the quotient's error scaled by the inverse mass.
SwapTolerance(b) == 1 + (InverseMass(b) + ONE - 1) \div ONE

Bits(n) == {i \in 0..(FlagBits - 1) : (n \div (2 ^ i)) % 2 = 1}

\* The symmetric gate of the layer masks, bit by bit: each mask shares a bit
\* with the other's layer.
MasksPermit(fa, fb) ==
    /\ Bits(fa.collision_mask) \cap Bits(fb.collision_layer) # {}
    /\ Bits(fb.collision_mask) \cap Bits(fa.collision_layer) # {}

\* C8: no pair whose flags fail the symmetric mask test is in the pair set,
\* after the broad phase and through the narrow phase and the resolution.
C8_MaskedPairsNeverCandidates ==
    \A p \in Range(collision_pairs) : MasksPermit(flag[p[1]], flag[p[2]])

\* C8 witness: the broad phase has run over two entities whose boxes overlap
\* and whose flags fail the test, and has left the pair out.
C8_Witness ==
    /\ pc = "NarrowPhase"
    /\ BboxIsCollide(GetBbox(World(1)), GetBbox(World(2)))
    /\ ~MasksPermit(flag[1], flag[2])
    /\ collision_pairs = <<>>

\* C9: can_collide_with is symmetric, is the two-sided mask test, and does
\* not read is_trigger.
C9_CanCollideSymmetric ==
    \A a, b \in Entities :
        /\ CanCollideWith(flag[a], flag[b]) = CanCollideWith(flag[b], flag[a])
        /\ CanCollideWith(flag[a], flag[b]) = MasksPermit(flag[a], flag[b])
        /\ \A t \in BOOLEAN :
              CanCollideWith([flag[a] EXCEPT !.is_trigger = t], flag[b])
                  = CanCollideWith(flag[a], flag[b])

\* C9 witness: the broad phase has applied the test to a pair that only one
\* side's mask admits, and has rejected it.
C9_Witness ==
    /\ pc = "NarrowPhase"
    /\ Bits(flag[1].collision_mask) \cap Bits(flag[2].collision_layer) # {}
    /\ Bits(flag[2].collision_mask) \cap Bits(flag[1].collision_layer) = {}
    /\ collision_pairs = <<>>

\* C10: the resolution leaves the position and the velocity of both
\* entities of a pair unchanged when either flag is a trigger.
C10_TriggerPairUnresolved ==
    Resolved =>
        \A p \in Range(collision_pairs) :
            (flag[p[1]].is_trigger \/ flag[p[2]].is_trigger) =>
                \A e \in {p[1], p[2]} :
                    Displacement(e) = <<0, 0>> /\ VelocityChange(e) = <<0, 0>>

\* C11: every message of the narrow phase is in the trigger stream when at
\* least one flag of its pair has is_trigger set and in the collision stream
\* otherwise, and no pair has messages in both streams in one tick.
C11_StreamByTriggerFlag ==
    AfterNarrow =>
        /\ \A i \in DOMAIN events :
              LET p == events[i].pair
              IN  /\ events[i].stream \in {"trigger", "collision"}
                  /\ events[i].stream = "trigger"
                        <=> (flag[p[1]].is_trigger \/ flag[p[2]].is_trigger)
        /\ \A i, j \in DOMAIN events :
              events[i].pair = events[j].pair => events[i].stream = events[j].stream

\* C11 witness: the narrow phase has written a trigger message for a pair
\* whose first object is solid and whose second object is a trigger.
C11_Witness ==
    /\ AfterNarrow
    /\ \E i \in DOMAIN events :
          /\ events[i].stream = "trigger"
          /\ ~flag[events[i].pair[1]].is_trigger
          /\ flag[events[i].pair[2]].is_trigger

\* The phases that may follow one another directly.
Succession ==
    {<<"PreUpdate", "VelocityIntegration">>, <<"VelocityIntegration", "BroadPhase">>,
     <<"BroadPhase", "NarrowPhase">>, <<"NarrowPhase", "CollisionResolution">>,
     <<"CollisionResolution", "PositionIntegration">>,
     <<"PositionIntegration", "PostUpdate">>, <<"PostUpdate", "PreUpdate">>}

\* C12: every step of the pipeline runs one phase and hands over to the next
\* one of the order force application, velocity integration, broad phase,
\* narrow phase, collision resolution, position integration, debug
\* rendering; the tick ends with debug rendering and only there.
C12_PhasesInOrder ==
    [][/\ <<pc, pc'>> \in Succession
       /\ tick' = IF pc = "PostUpdate" THEN tick + 1 ELSE tick]_vars

\* C12 witness: a whole tick has run and the second one has reached debug
\* rendering.
C12_Witness == tick = 1 /\ pc = "PostUpdate"

\* The relative velocity along the separation normal the resolution of the
\* one pair started from.
NormalVelocityOfPair ==
    ProjectionOf(Normal, VSatSub(pre.motion[OnlyPair[1]].velocity,
                                 pre.motion[OnlyPair[2]].velocity))

\* C13: when the relative velocity along the normal is negative, or the
\* separation vector has zero length, or the inverse masses sum to zero
\* (neither mass is positive), the resolution of the pair leaves both
\* velocities unchanged.
C13_SkipLeavesVelocities ==
    ResolvedOne =>
        LET a == OnlyPair[1]
            b == OnlyPair[2]
            sep == SeparationOf(OnlyPair)
        IN  (/\ sep.some
             /\ \/ NormalVelocityOfPair < 0
                \/ sep.v = <<0, 0>>
                \/ (body[a].mass <= 0 /\ body[b].mass <= 0)) =>
                VelocityChange(a) = <<0, 0>> /\ VelocityChange(b) = <<0, 0>>

\* C13 witness: two dynamic bodies that overlap and move apart along the
\* normal have been resolved.
C13_Witness ==
    /\ ResolvedOne
    /\ SeparationOf(OnlyPair).some /\ SeparationOf(OnlyPair).v # <<0, 0>>
    /\ body[OnlyPair[1]].mass > 0 /\ body[OnlyPair[2]].mass > 0
    /\ NormalVelocityOfPair < 0

\* C14: the resolution of a pair whose masses sum to zero and whose inverse
\* masses sum to zero (neither mass is positive: two bodies of mass 0)
\* changes no position and no velocity.
C14_MasslessPairUntouched ==
    ResolvedOne =>
        LET a == OnlyPair[1]
            b == OnlyPair[2]
        IN  (/\ body[a].mass + body[b].mass = 0
             /\ body[a].mass <= 0 /\ body[b].mass <= 0) =>
                \A e \in {a, b} :
                    Displacement(e) = <<0, 0>> /\ VelocityChange(e) = <<0, 0>>

\* C14 witness: two bodies of mass 0 that overlap by a non-zero vector and
\* approach each other have been resolved.
C14_Witness ==
    /\ ResolvedOne
    /\ body[OnlyPair[1]].mass = 0 /\ body[OnlyPair[2]].mass = 0
    /\ SeparationOf(OnlyPair).some /\ SeparationOf(OnlyPair).v # <<0, 0>>
    /\ NormalVelocityOfPair > 0

\* Entity e is gone or lacks one of the components cs.
Lacks(e, cs) == \E c \in cs : c \notin components[e]

\* C15: a narrow phase drops every pair with an entity that is gone or lacks
\* its shape, flag or transform and writes no Enter/Stay message for it; a
\* resolution leaves the position and velocity of both entities of a pair
\* unchanged when one is gone or lacks its body, motion, shape or transform.
C15_MissingEntitySkipped ==
    [][/\ (pc = "NarrowPhase" /\ pc' # pc) =>
            \A p \in Range(collision_pairs) :
                (\E e \in {p[1], p[2]} :
                    Lacks(e, {"QCollisionShape", "QCollisionFlag", "QTransform"})) =>
                    /\ p \notin Range(collision_pairs')
                    /\ Count(events', {"Enter", "Stay"}, p) = 0
       /\ (pc = "CollisionResolution" /\ pc' # pc) =>
            \A p \in Range(collision_pairs) :
                (\E e \in {p[1], p[2]} :
                    Lacks(e, {"QPhysicsBody", "QMotion", "QCollisionShape",
                              "QTransform"})) =>
                    \A e \in {p[1], p[2]} :
                        /\ transform'[e].position = transform[e].position
                        /\ motion'[e].velocity = motion[e].velocity]_vars

\* C15 witness: the broad phase found the pair, entity 2 was despawned, and
\* the narrow phase dropped the still-overlapping pair without a message.
C15_Witness ==
    /\ pc = "CollisionResolution"
    /\ candidates = <<(<<1, 2>>)>>
    /\ components[2] = {} /\ components[1] # {}
    /\ IsCollide(World(1), World(2))
    /\ collision_pairs = <<>>
    /\ Count(events, {"Enter", "Stay"}, <<1, 2>>) = 0

\* The world boxes of two entities of the pipeline overlap: their local
\* boxes are (0,0)-(2,2) and their transforms are translations.
BoxesOverlap(a, b) ==
    /\ Abs(transform[a].position[1] - transform[b].position[1]) <= Q(2)
    /\ Abs(transform[a].position[2] - transform[b].position[2]) <= Q(2)

\* C16: after the broad phase the pair set holds a pair of two distinct
\* objects exactly when their flags admit each other and their world boxes
\* overlap, holds each unordered pair at most once, and holds no self-pair.
C16_BroadPhaseCandidates ==
    pc = "NarrowPhase" =>
        /\ \A a, b \in Entities :
              a # b =>
                ((<<a, b>> \in Range(collision_pairs)
                    \/ <<b, a>> \in Range(collision_pairs))
                 <=> (MasksPermit(flag[a], flag[b]) /\ BoxesOverlap(a, b)))
        /\ \A a \in Entities : <<a, a>> \notin Range(collision_pairs)
        /\ \A i, j \in DOMAIN collision_pairs :
              i # j => /\ collision_pairs[i] # collision_pairs[j]
                       /\ collision_pairs[i]
                            # <<collision_pairs[j][2], collision_pairs[j][1]>>

\* C16 witness: the broad phase has made a candidate of a triangle and a
\* shape beside its hypotenuse: the boxes overlap, the shapes do not.
C16_Witness ==
    /\ pc = "NarrowPhase"
    /\ collision_pairs = <<(<<1, 2>>)>>
    /\ shape[1] = Triangle
    /\ ~IsCollide(World(1), World(2))

\* The part of the plane entity e covers, for a translated Square or
\* Triangle: lx <= x <= ux, ly <= y <= uy, x + y <= s.
Region(e) ==
    LET p == transform[e].position
    IN  [lx |-> p[1], ux |-> p[1] + Q(2), ly |-> p[2], uy |-> p[2] + Q(2),
         s  |-> IF shape[e] = Triangle THEN p[1] + p[2] + Q(2)
                ELSE p[1] + p[2] + Q(4)]

Larger(x, y) == IF x >= y THEN x ELSE y

Smaller(x, y) == IF x <= y THEN x ELSE y

\* The two regions of pair p share a point.
RegionsMeet(p) ==
    LET a == Region(p[1])
        b == Region(p[2])
        lx == Larger(a.lx, b.lx)
        ly == Larger(a.ly, b.ly)
    IN  /\ lx <= Smaller(a.ux, b.ux)
        /\ ly <= Smaller(a.uy, b.uy)
        /\ lx + ly <= Smaller(a.s, b.s)

\* C17: the pair set the narrow phase hands to the resolution is the
\* broad-phase candidates whose world shapes really meet, in order, and
\* nothing else.
C17_NarrowKeepsExactCollisions ==
    pc = "CollisionResolution" =>
        /\ collision_pairs = SelectSeq(candidates, RegionsMeet)
        /\ Range(collision_pairs) \subseteq Range(candidates)

\* C17 witness: the narrow phase has removed a candidate whose boxes overlap
\* and whose shapes do not meet.
C17_Witness ==
    /\ pc = "CollisionResolution"
    /\ candidates = <<(<<1, 2>>)>>
    /\ BoxesOverlap(1, 2)
    /\ ~RegionsMeet(<<1, 2>>)
    /\ collision_pairs = <<>>

\* C18: no step of the pipeline changes the position of a body of mass <= 0
\* that carries a motion and a transform.
C18_StaticBodyKeepsPosition ==
    [][\A e \in Entities :
          (body[e].mass <= 0 /\ {"QPhysicsBody", "QMotion", "QTransform"}
                                    \subseteq components[e]) =>
              transform'[e].position = transform[e].position]_vars

\* C19: force application sets the acceleration of every body of positive
\* mass to gravity, whatever it was, and leaves the acceleration of every
\* other body and the velocity of every body unchanged.
C19_ForcesSetGravity ==
    [][pc = "PreUpdate" =>
          \A e \in Entities :
              /\ body[e].mass > 0 => motion'[e].acceleration = gravity
              /\ body[e].mass <= 0 => motion'[e].acceleration = motion[e].acceleration
              /\ motion'[e].velocity = motion[e].velocity]_vars

\* C19 witness: the first force application has replaced a dynamic body's
\* own acceleration by gravity and has left a static body's own acceleration.
C19_Witness ==
    /\ tick = 0 /\ pc = "VelocityIntegration"
    /\ \E d, s \in Entities :
          /\ body[d].mass > 0
          /\ pre.motion[d].acceleration \notin {gravity, <<0, 0>>}
          /\ motion[d].acceleration = gravity
          /\ body[s].mass <= 0
          /\ motion[s].acceleration \notin {gravity, <<0, 0>>}

\* A vector turned by a multiple of a quarter turn, exactly.
Turned(d, v) ==
    CASE d = <<ONE, 0>>  -> v
      [] d = <<0, ONE>>  -> <<-v[2], v[1]>>
      [] d = <<-ONE, 0>> -> <<-v[1], -v[2]>>
      [] d = <<0, -ONE>> -> <<v[2], -v[1]>>

\* A vector scaled component by component.
Scaled(s, v) == <<(s[1] * v[1]) \div ONE, (s[2] * v[2]) \div ONE>>

Moved(p, v) == <<v[1] + p[1], v[2] + p[2]>>

\* The world shape of e has the variant and the number of points of its
\* local shape.
SameVariant(e) ==
    /\ World(e).kind = shape[e].kind
    /\ DOMAIN World(e).pts = DOMAIN shape[e].pts

\* C20 as stated: apply_to maps every defining point p of every variant to
\* scale * rotate(p) + position.
C20_RotateThenScaleThenTranslate ==
    \A e \in Entities :
        /\ SameVariant(e)
        /\ \A i \in DOMAIN shape[e].pts :
              World(e).pts[i] =
                  Moved(transform[e].position,
                        Scaled(transform[e].scale,
                               Turned(transform[e].rotation, shape[e].pts[i])))

\* C20 amended: apply_to maps every defining point p of every variant to
\* rotate(scale * p) + position.
C20_ScaleThenRotateThenTranslate ==
    \A e \in Entities :
        /\ SameVariant(e)
        /\ \A i \in DOMAIN shape[e].pts :
              World(e).pts[i] =
                  Moved(transform[e].position,
                        Turned(transform[e].rotation,
                               Scaled(transform[e].scale, shape[e].pts[i])))

\* C20 witness: the broad phase has applied a quarter turn with a
\* non-uniform scale to a polygon, where the two orders differ.
C20_Witness ==
    /\ pc = "NarrowPhase"
    /\ shape[1].kind = "Polygon"
    /\ transform[1].rotation = <<0, ONE>>
    /\ transform[1].scale = <<Q(2), Q(1)>>
    /\ \E i \in DOMAIN shape[1].pts :
          Scaled(transform[1].scale, Turned(transform[1].rotation, shape[1].pts[i]))
            # Turned(transform[1].rotation, Scaled(transform[1].scale, shape[1].pts[i]))

\* C21: the circle apply_to returns has a radius of at least EPS > 0: it is
\* EPS when the radius times sqrt(|scale.x| * |scale.y|), in fixed point,
\* is at most EPS, and that product otherwise.
C21_CircleRadiusAtLeastEps ==
    \A e \in Entities :
        shape[e].kind = "Circle" =>
            LET sx == Abs(transform[e].scale[1])
                sy == Abs(transform[e].scale[2])
                area == (sx * sy) \div ONE
                root == CHOOSE m \in 0..(ONE * 16) :
                            m * m <= area * ONE /\ area * ONE < (m + 1) * (m + 1)
                product == (shape[e].radius * root) \div ONE
                out == World(e).radius
            IN  /\ EPS > 0
                /\ out >= EPS
                /\ product <= EPS => out = EPS
                /\ product > EPS => out = product

\* C21 witness: the broad phase has applied a transform with a zero scale
\* component to a circle of radius 1, and the world circle has radius EPS.
C21_Witness ==
    /\ pc = "NarrowPhase"
    /\ shape[1].kind = "Circle" /\ shape[1].radius = Q(1)
    /\ transform[1].scale[1] = 0
    /\ World(1).radius = EPS

\* C22: is_static() holds exactly when mass <= 0; inverse_mass() is 0 for a
\* static body and 1/mass (rounded down) otherwise; static_body(r, f) has
\* mass 0, keeps r and f, and is static.
C22_StaticAndInverseMass ==
    \A e \in Entities :
        LET b == body[e]
            s == StaticBody(b.restitution, b.friction)
        IN  /\ IsStatic(b) <=> b.mass <= 0
            /\ b.mass <= 0 => InverseMass(b) = 0
            /\ b.mass > 0 => InverseMass(b) = Smaller(QMAX, (ONE * ONE) \div b.mass)
            /\ s.mass = 0 /\ s.restitution = b.restitution /\ s.friction = b.friction
            /\ IsStatic(s) /\ InverseMass(s) = 0

\* C22 witness: the resolution has applied an impulse to a pair of a body of
\* negative mass and a body of mass 3/4, using both inverse masses.
C22_Witness ==
    /\ ResolvedOne
    /\ body[OnlyPair[1]].mass < 0
    /\ body[OnlyPair[2]].mass = (3 * ONE) \div 4
    /\ SeparationOf(OnlyPair).some /\ SeparationOf(OnlyPair).v # <<0, 0>>
    /\ NormalVelocityOfPair > 0
    /\ VelocityChange(OnlyPair[2]) # <<0, 0>>

Translated(s, v) ==
    [s EXCEPT !.pts = [i \in DOMAIN s.pts |-> <<s.pts[i][1] + v[1], s.pts[i][2] + v[2]>>]]

\* Two shapes share no area: on some axis their projections at most touch.
NoOverlapLeft(sa, sb) ==
    LET P == ToPolygon(sa)
        R == ToPolygon(sb)
    IN  \E n \in Axes(P) \cup Axes(R) :
            LET pp == {Dot(n, P[i]) : i \in DOMAIN P}
                pr == {Dot(n, R[i]) : i \in DOMAIN R}
            IN  n # <<0, 0>> /\ (Max(pp) <= Min(pr) \/ Max(pr) <= Min(pp))

AfterFirstPair ==
    ResolvePair(LoopStart(pre.motion, pre.transform),
                collision_pairs[1][1], collision_pairs[1][2])

Orders(pairs) ==
    {[i \in 1..Len(pairs) |-> pairs[f[i]]] : f \in Permutations(1..Len(pairs))}

\* C27: the positions and velocities the resolution leaves are those every
\* order of the surviving pairs gives.
C27_ResolutionOrderIndependent ==
    Resolved =>
        \A q \in Orders(collision_pairs) :
            LET st == ResolveAll(LoopStart(pre.motion, pre.transform), q, 1)
            IN  \A e \in Entities :
                    /\ st.transform[e].position = transform[e].position
                    /\ st.motion[e].velocity = motion[e].velocity

\* C26: the resolution never traps, and the mass sum and the inverse-mass sum
\* it uses are the saturated sums: the positional correction and the impulse
\* of the one resolved pair are those computed with saturating_add.
C26_SumsSaturate ==
    /\ pc # "Panicked"
    /\ (ResolvedOne /\ SeparationOf(OnlyPair).some) =>
          LET a == OnlyPair[1]
              b == OnlyPair[2]
              sep == SeparationOf(OnlyPair).v
              mass_sum == SatAdd(body[a].mass, body[b].mass)
              inv_mass_sum == SatAdd(InverseMass(body[a]), InverseMass(body[b]))
              restitution == Half(SatAdd(body[a].restitution, body[b].restitution))
              separate_vel == Neg(SatMul(SatAdd(restitution, ONE), NormalVelocityOfPair))
              impulse == VSatMulNum(Normal, SatDiv(separate_vel, inv_mass_sum))
          IN  /\ mass_sum # 0 =>
                    /\ Displacement(a) = VNeg(VSatMulNum(sep,
                            SeparationShare(body[a].mass, body[b].mass, mass_sum)))
                    /\ Displacement(b) = VSatMulNum(sep,
                            SeparationShare(body[b].mass, body[a].mass, mass_sum))
              /\ ~ImpulseSkip(NormalVelocityOfPair, VLength(sep), inv_mass_sum) =>
                    /\ VelocityChange(a) = VSatMulNum(impulse, InverseMass(body[a]))
                    /\ VelocityChange(b) = VNeg(VSatMulNum(impulse, InverseMass(body[b])))

\* The entities of the pairs the narrow phase of this tick left.
InCollision == {p[1] : p \in Range(collision_pairs)} \cup {p[2] : p \in Range(collision_pairs)}

\* The position integration of this tick has run.
Integrated == pc = "PostUpdate"

\* C28: a body of positive mass that is in no surviving pair of the tick
\* ends the tick with velocity v + g * dt and position p + (v + g * dt) * dt,
\* v and p being its velocity and position as the tick began.
C28_FreeBodyStep ==
    Integrated =>
        \A e \in Entities :
            (/\ Has(e, {"QPhysicsBody", "QMotion", "QTransform"})
             /\ body[e].mass > 0
             /\ e \notin InCollision) =>
                LET v == VSatAdd(start.motion[e].velocity,
                                 VSatMulNum(gravity, time_step))
                IN  /\ motion[e].velocity = v
                    /\ transform[e].position =
                           VSatAdd(start.transform[e].position,
                                   VSatMulNum(v, time_step))

\* C28 witness: in the tick after a collision that sent it away, body 2 moved
\* freely, sideways and under gravity.
C28_Witness ==
    /\ Integrated
    /\ tick >= 1
    /\ last_frame # {}
    /\ collision_pairs = <<>>
    /\ body[2].mass > 0
    /\ gravity[2] # 0
    /\ start.motion[2].velocity[1] # 0
    /\ transform[2].position[1] # start.transform[2].position[1]
    /\ transform[2].position[2] # start.transform[2].position[2]

\* The pair p with its objects in the other order.
Swapped(p) == <<p[2], p[1]>>

\* C29: a pair that got a colliding message in the previous tick and that
\* this tick's narrow phase keeps with its objects listed in the other order
\* is taken for the same pair: it gets the message of a pair found in the
\* last-frame set, and no Exit/Ended message is written for it in either
\* order.
C29_PairIsUnordered ==
    [][pc = "NarrowPhase" =>
        \A p \in AllPairs :
            (/\ Count(events, {"Enter", "Stay"}, p) > 0
             /\ Swapped(p) \in Range(collision_pairs')) =>
                /\ Count(events', {SurvivorKind(TRUE)}, Swapped(p)) = 1
                /\ Count(events', {"Exit"}, p) = 0
                /\ Count(events', {"Exit"}, Swapped(p)) = 0]_vars

\* The relative velocity of the one resolved pair along the normal, after
\* the resolution.
NormalVelocityOfPairAfter ==
    ProjectionOf(Normal, VSatSub(motion[OnlyPair[1]].velocity,
                                 motion[OnlyPair[2]].velocity))

\* The resolution applied an impulse to the one resolved pair.
ImpulseApplied ==
    /\ ResolvedOne
    /\ SeparationOf(OnlyPair).some
    /\ ~ImpulseSkip(NormalVelocityOfPair, VLength(SeparationOf(OnlyPair).v),
                    PlainAdd(InverseMass(body[OnlyPair[1]]),
                             InverseMass(body[OnlyPair[2]])))

\* Rounding error of the relative velocity after an impulse, in raw units:
\* one for each of the four products and the quotient's error scaled by the
\* two inverse masses.
ImpulseTolerance ==
    4 + (InverseMass(body[OnlyPair[1]]) + InverseMass(body[OnlyPair[2]]) + ONE - 1)
            \div ONE

\* C30: whenever an impulse is applied, the relative normal velocity after it
\* is minus the averaged restitution times the one before (up to rounding),
\* and the bodies no longer approach each other.
C30_ImpulseReversesNormalVelocity ==
    ImpulseApplied =>
        LET restitution == Half(SatAdd(body[OnlyPair[1]].restitution,
                                       body[OnlyPair[2]].restitution))
        IN  /\ Abs(NormalVelocityOfPairAfter
                   + SatMul(restitution, NormalVelocityOfPair)) <= ImpulseTolerance
            /\ NormalVelocityOfPairAfter <= ImpulseTolerance

\* 1/m is a value of Q64: the quotient is whole and in range.
InverseRepresentable(m) ==
    m > 0 /\ (ONE * ONE) % m = 0 /\ (ONE * ONE) \div m <= QMAX

\* The total linear momentum of the one resolved pair under the motions mo,
\* as the unrounded products mass * velocity (in units of 1 / ONE^2).
Momentum(mo) ==
    LET a == OnlyPair[1]
        b == OnlyPair[2]
    IN  <<body[a].mass * mo[a].velocity[1] + body[b].mass * mo[b].velocity[1],
          body[a].mass * mo[a].velocity[2] + body[b].mass * mo[b].velocity[2]>>

\* The one resolved pair is of two dynamic bodies whose inverse masses are
\* exactly representable.
DynamicExactPair ==
    /\ ResolvedOne
    /\ InverseRepresentable(body[OnlyPair[1]].mass)
    /\ InverseRepresentable(body[OnlyPair[2]].mass)

\* No velocity of the pair is at the end of the range after the resolution.
NoVelocitySaturated ==
    \A e \in {OnlyPair[1], OnlyPair[2]} : \A i \in {1, 2} :
        motion[e].velocity[i] > QMIN /\ motion[e].velocity[i] < QMAX

\* C31 as stated: with exactly representable inverse masses the resolution
\* of the pair leaves the total momentum exactly as it was.
C31_MomentumExact ==
    DynamicExactPair => Momentum(motion) = Momentum(pre.motion)

\* C31 amended: with exactly representable inverse masses and no saturated
\* velocity, the resolution of the pair changes each component of the total
\* momentum by less than the larger mass times one unit in the last place of
\* a velocity (the rounding of impulse * inverse mass), and not at all when
\* both masses are one.
C31_MomentumWithinRounding ==
    (DynamicExactPair /\ NoVelocitySaturated) =>
        LET a == OnlyPair[1]
            b == OnlyPair[2]
            tol == IF body[a].mass = ONE /\ body[b].mass = ONE THEN 0
                   ELSE Larger(body[a].mass, body[b].mass) - 1
        IN  \A i \in {1, 2} :
                Abs(Momentum(motion)[i] - Momentum(pre.motion)[i]) <= tol

\* C31 witness: an impulse was applied to bodies of mass 2 and 1 and its
\* rounding changed the total momentum.
C31_Witness ==
    /\ DynamicExactPair
    /\ NoVelocitySaturated
    /\ ImpulseApplied
    /\ body[OnlyPair[1]].mass = Q(2) /\ body[OnlyPair[2]].mass = Q(1)
    /\ VelocityChange(OnlyPair[1]) # <<0, 0>>
    /\ Momentum(motion) # Momentum(pre.motion)

\* The resolution applied a positional correction to the one resolved pair:
\* a separation vector was found and the mass sum it computed is not zero.
CorrectionApplied ==
    /\ ResolvedOne
    /\ SeparationOf(OnlyPair).some
    /\ PlainAdd(body[OnlyPair[1]].mass, body[OnlyPair[2]].mass) # 0

\* Rounding error of the relative displacement, in raw units: one for each
\* of the two products and the error of the two shares scaled by the vector.
CorrectionTolerance(v) ==
    2 + 2 * ((Larger(Abs(v[1]), Abs(v[2])) + ONE - 1) \div ONE)

\* C32: whenever a positional correction is applied for separation vector v,
\* the displacement of the second body minus the displacement of the first
\* is v (up to rounding).
C32_RelativeDisplacementIsSeparation ==
    CorrectionApplied =>
        LET v == SeparationOf(OnlyPair).v
            d == VSatSub(Displacement(OnlyPair[2]), Displacement(OnlyPair[1]))
        IN  \A i \in {1, 2} : Abs(d[i] - v[i]) <= CorrectionTolerance(v)

StoredEntitiesAreSome ==
    /\ \A i \in DOMAIN pair_entity : \A o \in Range(pair_entity[i]) : o.some
    /\ \A p \in DOMAIN last_entity : \A o \in Range(last_entity[p]) : o.some

\* C34: every QObject held in the current pair list or in the last-frame
\* set has its entity set, objects spawned with entity = None included, so
\* no entity.unwrap() of the narrow phase or of the collision resolution
\* panics.
C34_StoredEntityIsSome == StoredEntitiesAreSome /\ pc # "Panicked"

\* A step of handle_shape_interaction (the UI panel's steps change ui_state).
HandlerStep == ui_state' = ui_state

\* What the reset branch must leave: the drawing state cleared and on the
\* UI's selection, the shape in progress gone, every other shape as it was,
\* nothing spawned.
ResetEffect ==
    /\ shape_drawing_state'.start_position = None
    /\ shape_drawing_state'.current_shape = NoEntity
    /\ shape_drawing_state'.selected_shape_type = ui_state.selected_shape
    /\ DOMAIN editor_shapes' =
          DOMAIN editor_shapes \ (IF shape_drawing_state.current_shape.some
                                  THEN {shape_drawing_state.current_shape.v} ELSE {})
    /\ \A e \in DOMAIN editor_shapes' : editor_shapes'[e] = editor_shapes[e]
    /\ spawned' = spawned

\* C36 as stated: whenever the UI's selection differs from the drawing
\* state's selected type, or nothing is selected, a run of
\* handle_shape_interaction despawns the shape in progress, clears
\* current_shape and start_position, adopts the UI's selection and creates or
\* modifies no shape.
C36_ResetOnSelectionChange ==
    [][(HandlerStep /\ SelectionChanged) => ResetEffect]_vars

\* C36: the same, for the runs in which the pointer is not over the UI (with
\* the pointer over the UI the system returns before it reads the selection).
C36_ResetOffTheUi ==
    [][(HandlerStep /\ ~mouse_over_ui' /\ SelectionChanged) => ResetEffect]_vars

\* A reset has despawned a shape in progress.
C36_Witness ==
    /\ \E e \in 1..spawned : e \notin DOMAIN editor_shapes
    /\ ~shape_drawing_state.current_shape.some
    /\ ~shape_drawing_state.start_position.some
    /\ shape_drawing_state.selected_shape_type = ui_state.selected_shape
    /\ ~mouse_over_ui

\* C37: after every run of handle_shape_interaction, start_position is Some
\* exactly when current_shape is Some.
C37_StartIffCurrent ==
    shape_drawing_state.start_position.some <=> shape_drawing_state.current_shape.some

\* A second shape is in progress after the first one was finished by a click.
C37_Witness ==
    /\ spawned = 2
    /\ DOMAIN editor_shapes = {1, 2}
    /\ shape_drawing_state.current_shape = Some(2)
    /\ shape_drawing_state.start_position.some

\* C38: the assertion "Point shape should be finalized immediately on click."
\* is never reached: a run that finds Point selected and no shape in progress
\* and does anything spawns the point and makes it the shape in progress,
\* whatever the buttons.
C38_AssertionNotReached ==
    [][/\ draw_pc' = "Running"
       /\ (/\ HandlerStep
           /\ ~SelectionChanged
           /\ shape_drawing_state.selected_shape_type = Some("QPoint")
           /\ ~shape_drawing_state.current_shape.some
           /\ shape_drawing_state' # shape_drawing_state) =>
              /\ spawned' = spawned + 1
              /\ DOMAIN editor_shapes' = DOMAIN editor_shapes \cup {spawned'}
              /\ editor_shapes'[spawned'].kind = "Point"
              /\ shape_drawing_state'.current_shape = Some(spawned')
              /\ shape_drawing_state'.start_position.some]_vars

\* A point was spawned at the cursor and finished by a left click, with Point
\* still selected.
C38_Witness ==
    /\ shape_drawing_state.selected_shape_type = Some("QPoint")
    /\ ui_state.selected_shape = Some("QPoint")
    /\ ~shape_drawing_state.current_shape.some
    /\ \E e \in DOMAIN editor_shapes : editor_shapes[e].kind = "Point"
    /\ draw_pc = "Running"

====
